---------------------------- MODULE Spec2Model ----------------------------
(***************************************************************************)
(* The nockchain mining coordinator.                                       *)
(*                                                                         *)
(* Two drivers are modelled, selected by `variant`:                        *)
(*   "pool"   crates/nockchain/src/mining.rs: N workers, each leasing a     *)
(*            kernel from a bounded pool, results relayed by the driver;   *)
(*   "simple" crates/nockchain/src/mining_simple_optimized.rs: one attempt  *)
(*            in flight, one queued candidate, setup retried three times.  *)
(*                                                                         *)
(* Option<T> values are sequences of length 0 (None) or 1 (Some).          *)
(* Nouns are tuples: an atom n is <<n>>, a cell [h t] is <<h, t>>.         *)
(***************************************************************************)
EXTENDS Integers, Sequences, FiniteSets, TLC

(***************************************************************************)
(* Bounds of the model.                                                    *)
(***************************************************************************)
\* machines with 1..MaxCores cores are explored (num_cpus::get())
MaxCores == 2
\* the largest machine explored where pre-warming fills the pool
MaxCapCores == 5
\* number of `mine` effects the node emits in one run of mining.rs
MaxCandidates == 2
\* number of `mine` effects the node emits in one run of mining_simple_optimized.rs
MaxSimpleCandidates == 3
\* longest effect list a kernel returns from one poke
MaxEffects == 2
\* longest configuration list explored at startup
MaxConfigs == 2
\* most keys in one configuration
MaxKeys == 2
\* field calls are made with the elements 0..MaxSmall, among others
MaxSmall == 2
\* longest vector a batch function is called with
MaxBatch == 4

(***************************************************************************)
(* Program constants.                                                      *)
(***************************************************************************)
\* mining.rs:285 and mining.rs:343, the pool never grows beyond 8 kernels
POOL_MAX == 8
\* mining.rs:394, at most 8 workers
MAX_WORKERS == 8
\* mining_simple_optimized.rs:137, `for attempt in 1..=3`
SETUP_ATTEMPTS == 3

Min(a, b) == IF a < b THEN a ELSE b

Range(s) == {s[i] : i \in 1..Len(s)}

None == <<>>
Some(x) == <<x>>

(***************************************************************************)
(* Nouns and pokes.                                                        *)
(***************************************************************************)
\* D(n): a direct atom
D(n) == <<n>>
\* T(&[h, t]): a cell
T(h, t) == <<h, t>>

\* MiningWire::verb
verb(wire) ==
    CASE wire = "Mined" -> "mined"
      [] wire = "SetPubKey" -> "setpubkey"
      [] wire = "Candidate" -> "candidate"
      [] wire = "Enable" -> "enable"

\* A poke of the node: the wire tag and the noun [%command cmd payload];
\* ok records whether handle.poke returned Ok.
Poke(wire, cmd, payload, ok) ==
    [wire |-> verb(wire), cmd |-> cmd, payload |-> payload, ok |-> ok]

\* the keys of one config, folded into a nil-terminated list by prepending
RECURSIVE keys_noun(_, _)
keys_noun(keys, acc) ==
    IF keys = <<>> THEN acc
    ELSE keys_noun(Tail(keys), T(D(Head(keys)), acc))

\* the configs, folded into a list that keeps the input order
RECURSIVE configs_list_in_order(_, _)
configs_list_in_order(configs, acc) ==
    IF configs = <<>> THEN acc
    ELSE LET config == Head(configs)
             config_tuple == T(D(config.share),
                               T(D(config.m), keys_noun(config.keys, D(0))))
         IN T(config_tuple, configs_list_in_order(Tail(configs), acc))

\* the configs, folded into a nil-terminated list of [share m keys] by prepending
RECURSIVE configs_list(_, _)
configs_list(configs, acc) ==
    IF configs = <<>> THEN acc
    ELSE LET config == Head(configs)
             config_tuple == T(D(config.share),
                               T(D(config.m), keys_noun(config.keys, D(0))))
         IN configs_list(Tail(configs), T(config_tuple, acc))

\* the condition without its `configs[0].share == 1`
IsSimpleKey_any_share(configs) ==
    /\ Len(configs) = 1
    /\ configs[1].m = 1
    /\ Len(configs[1].keys) = 1

\* the condition choosing set-mining-key over set-mining-key-advanced
IsSimpleKey(configs) ==
    /\ Len(configs) = 1
    /\ configs[1].share = 1
    /\ configs[1].m = 1
    /\ Len(configs[1].keys) = 1

\* the key-setup poke for Some(configs)
KeyPoke(configs, ok) ==
    IF IsSimpleKey(configs)
    THEN Poke("SetPubKey", "set-mining-key", D(configs[1].keys[1]), ok)
    ELSE Poke("SetPubKey", "set-mining-key-advanced", configs_list(configs, D(0)), ok)

\* enable_mining with the two payloads exchanged
enable_mining_inverted(enable, ok) ==
    Poke("Enable", "enable-mining", D(IF enable THEN 1 ELSE 0), ok)

\* enable_mining: D(if enable { 0 } else { 1 })
enable_mining(enable, ok) ==
    Poke("Enable", "enable-mining", D(IF enable THEN 0 ELSE 1), ok)

(***************************************************************************)
(* Inputs.                                                                 *)
(***************************************************************************)
MiningKeyConfig(share, m, keys) == [share |-> share, m |-> m, keys |-> keys]

\* mining_config: None, one plain key, two configs (S2 and S3 of the spec)
ConfigChoices ==
    { None,
      Some(<< MiningKeyConfig(1, 1, <<11>>) >>),
      Some(<< MiningKeyConfig(2, 3, <<11, 12>>), MiningKeyConfig(1, 1, <<13>>) >>) }

\* init_complete_tx: absent, present, present with the receiver already dropped
InitTxChoices == {"none", "open", "dropped"}

\* what a kernel effect can be: a cell headed %command, another cell, an atom
EffectKinds == {"command", "other", "atom"}

RECURSIVE SeqsUpTo(_, _)
SeqsUpTo(S, n) ==
    IF n = 0 THEN {<<>>}
    ELSE LET shorter == SeqsUpTo(S, n - 1)
         IN shorter \cup {Append(s, x) : s \in {t \in shorter : Len(t) = n - 1}, x \in S}

\* the effect lists kernel.poke may return
EffectLists == SeqsUpTo(EffectKinds, MaxEffects)

(***************************************************************************)
(* State.                                                                  *)
(***************************************************************************)
VARIABLES
    variant,            \* which driver runs
    mining_config,      \* Option<Vec<MiningKeyConfig>>
    mine,               \* the `mine` flag
    init_complete_tx,   \* the one-shot sender
    num_cores,          \* what num_cpus::get() returns on this machine
    effect_stream,      \* the node's effect stream, as next_effect() reports it
    dpc,                \* position of the driver task
    pokes,              \* every poke of the node so far, in order
    init_signalled,     \* tx.send(()) succeeded
    attempt,            \* simple: the setup loop's `attempt`
    setup_success,      \* simple: the setup loop's flag
    kernel_pool,        \* VecDeque<(Kernel, TempDir)>, as kernel ids
    pool_lock,          \* holder of the kernel_pool mutex
    constructed,        \* kernels ever constructed; ids are 1..constructed
    scratch,            \* kernels whose TempDir exists on disk
    prewarm_i,          \* loop index of the pre-warm loop
    wpc,                \* position of every worker task
    candidate_rx,       \* every worker's input channel
    held,               \* the (kernel, temp_dir) pairs every worker owns
    cur,                \* the candidate a worker is attempting
    result,             \* the Option<NounSlab> of a worker's attempt
    result_chan,        \* the result channel
    current_worker,     \* the round-robin cursor
    candidates,         \* `mine` effects seen so far; candidate ids are 1..candidates
    dispatched,         \* <<candidate, worker>> for every candidate a worker was sent, in order
    produced,           \* every %command effect a kernel returned
    aborted,            \* mining.rs: candidates whose lease or kernel poke failed
    total_attempts,
    successful_blocks,
    failed_attempts,
    worker_stats,       \* per worker: attempts and successes
    next_attempt,       \* simple: Option<NounSlab>
    current_attempt,    \* simple: the JoinSet's task, if any
    cpu,                \* field: the features is_x86_feature_detected! reports
    fimpl,              \* field: the module called, base or base_optimized
    fcall,              \* field: the function called
    fa,                 \* field: its first argument
    fb,                 \* field: its second argument
    fpc,                \* field: position of the call
    fout                \* field: what the call returned

inputs == <<variant, mining_config, mine, init_complete_tx, num_cores, effect_stream>>
setup == <<attempt, setup_success>>
poolv == <<kernel_pool, pool_lock, constructed, scratch, prewarm_i>>
workerv == <<wpc, candidate_rx, held, cur, result>>
dispatchv == <<current_worker, candidates, dispatched>>
kernelv == <<produced, aborted>>
statsv == <<total_attempts, successful_blocks, failed_attempts, worker_stats>>
simplev == <<next_attempt, current_attempt>>

fieldv == <<cpu, fimpl, fcall, fa, fb, fpc, fout>>

vars == <<fieldv, inputs, dpc, pokes, init_signalled, setup, poolv, workerv,
          result_chan, dispatchv, kernelv, statsv, simplev>>

\* no field function is being called
FieldIdle ==
    /\ cpu = {}
    /\ fimpl = "none"
    /\ fcall = "none"
    /\ fa = <<>>
    /\ fb = <<>>
    /\ fpc = "off"
    /\ fout = <<>>

NoTask == [pc |-> "none", cand |-> 0, effects |-> <<>>, idx |-> 0]

\* the state create_mining_driver starts in, whatever its arguments
InitState ==
    /\ effect_stream = "open"
    /\ dpc = "start"
    /\ pokes = <<>>
    /\ init_signalled = FALSE
    /\ attempt = 1
    /\ setup_success = FALSE
    /\ kernel_pool = <<>>
    /\ pool_lock = "free"
    /\ constructed = 0
    /\ scratch = {}
    /\ prewarm_i = 0
    /\ wpc = <<>>
    /\ candidate_rx = <<>>
    /\ held = <<>>
    /\ cur = <<>>
    /\ result = <<>>
    /\ result_chan = <<>>
    /\ current_worker = 0
    /\ candidates = 0
    /\ dispatched = <<>>
    /\ produced = {}
    /\ aborted = {}
    /\ total_attempts = 0
    /\ successful_blocks = 0
    /\ failed_attempts = 0
    /\ worker_stats = <<>>
    /\ next_attempt = None
    /\ current_attempt = NoTask

Init ==
    /\ variant \in {"pool", "simple"}
    /\ mining_config \in ConfigChoices
    /\ mine \in BOOLEAN
    /\ init_complete_tx \in InitTxChoices
    /\ num_cores \in 1..MaxCores
    /\ InitState
    /\ FieldIdle

(***************************************************************************)
(* Startup, common to both drivers.                                        *)
(***************************************************************************)
configs == mining_config[1]

\* tx.send(()) on the one-shot channel: fails when the receiver is gone
InitSendFails == init_complete_tx = "dropped"

\* `let Some(configs) = mining_config else { enable_mining(&handle, false).await?; ...`
NoConfigEnable(v) ==
    /\ variant = v
    /\ dpc = "start"
    /\ mining_config = None
    /\ \E ok \in BOOLEAN :
          /\ pokes' = Append(pokes, enable_mining(FALSE, ok))
          /\ dpc' = IF ok THEN "noconfig_init" ELSE "returned_err"
    /\ UNCHANGED <<fieldv, inputs, init_signalled, setup, poolv, workerv, result_chan,
                   dispatchv, kernelv, statsv, simplev>>

\* `if let Some(tx) = init_complete_tx { tx.send(())...?; } return Ok(());`
NoConfigInit(v) ==
    /\ variant = v
    /\ dpc = "noconfig_init"
    /\ init_signalled' = (init_complete_tx = "open")
    /\ dpc' = IF InitSendFails THEN "returned_err" ELSE "returned_ok"
    /\ UNCHANGED <<fieldv, inputs, pokes, setup, poolv, workerv, result_chan,
                   dispatchv, kernelv, statsv, simplev>>

\* the driver without its `if !mine { return Ok(()); }`
always_enters(m) == TRUE

\* `if !mine { return Ok(()); }`: the driver goes on to mine only when mine is set
EntersMainLoop(m) == m

(***************************************************************************)
(* mining.rs: startup of create_mining_driver.                             *)
(***************************************************************************)
P_NoConfigEnable == NoConfigEnable("pool")

P_NoConfigInit == NoConfigInit("pool")

\* where the driver continues after the key-setup poke returned Ok
P_AfterKey == "enable"

\* where the driver continues after enable_mining returned Ok
P_AfterEnable == "init"

\* where the driver continues after init-complete, when mine is set
P_AfterInit == "new_state"

\* set_mining_key(..).await? or set_mining_key_advanced(..).await?
P_SetKey ==
    /\ variant = "pool"
    /\ dpc = "start"
    /\ mining_config # None
    /\ \E ok \in BOOLEAN :
          /\ pokes' = Append(pokes, KeyPoke(configs, ok))
          /\ dpc' = IF ok THEN P_AfterKey ELSE "returned_err"
    /\ UNCHANGED <<fieldv, inputs, init_signalled, setup, poolv, workerv, result_chan,
                   dispatchv, kernelv, statsv, simplev>>

\* enable_mining(&handle, mine).await?
P_Enable ==
    /\ variant = "pool"
    /\ dpc = "enable"
    /\ \E ok \in BOOLEAN :
          /\ pokes' = Append(pokes, enable_mining(mine, ok))
          /\ dpc' = IF ok THEN P_AfterEnable ELSE "returned_err"
    /\ UNCHANGED <<fieldv, inputs, init_signalled, setup, poolv, workerv, result_chan,
                   dispatchv, kernelv, statsv, simplev>>

\* the init-complete send, then `if !mine { return Ok(()); }`
P_SignalInit ==
    /\ variant = "pool"
    /\ dpc = "init"
    /\ init_signalled' = (init_complete_tx = "open")
    /\ dpc' = IF InitSendFails THEN "returned_err"
              ELSE IF EntersMainLoop(mine) THEN P_AfterInit
              ELSE "returned_ok"
    /\ UNCHANGED <<fieldv, inputs, pokes, setup, poolv, workerv, result_chan,
                   dispatchv, kernelv, statsv, simplev>>

(***************************************************************************)
(* mining.rs: OptimizedMiningState, the kernel pool.                       *)
(***************************************************************************)
\* `num_cpus::get().min(8)`
num_workers == Min(num_cores, MAX_WORKERS)

\* the pre-warm size without its `.min(8)`
pool_size_unclamped(cores) == cores * 2

\* `(num_cores * 2).min(8)`
pool_size(cores) == Min(cores * 2, POOL_MAX)

\* the id a successful create_kernel_instance gives its (Kernel, TempDir)
NewKernel == constructed + 1

\* create_kernel_instance may fail (tempdir_in or the kernel load)
CreateOutcomes == BOOLEAN

\* `let num_workers = num_cpus::get().min(8)` and OptimizedMiningState::new up
\* to taking the pool lock for pre-warming
P_NewState ==
    /\ variant = "pool"
    /\ dpc = "new_state"
    /\ pool_lock = "free"
    /\ worker_stats' = [w \in 0..(num_workers - 1) |-> [attempts |-> 0, successes |-> 0]]
    /\ pool_lock' = "new"
    /\ prewarm_i' = 0
    /\ dpc' = "prewarm"
    /\ UNCHANGED <<fieldv, inputs, pokes, init_signalled, setup, kernel_pool, constructed,
                   scratch, workerv, result_chan, dispatchv,
                   kernelv, total_attempts, successful_blocks, failed_attempts,
                   simplev>>

\* one iteration of `for i in 0..pool_size`, under the pool lock
P_Prewarm ==
    /\ variant = "pool"
    /\ dpc = "prewarm"
    /\ prewarm_i < pool_size(num_cores)
    /\ prewarm_i' = prewarm_i + 1
    /\ \E ok \in CreateOutcomes :
          IF ok
          THEN /\ constructed' = NewKernel
               /\ scratch' = scratch \cup {NewKernel}
               /\ kernel_pool' = Append(kernel_pool, NewKernel)
          ELSE UNCHANGED <<constructed, scratch, kernel_pool>>
    /\ UNCHANGED <<fieldv, inputs, dpc, pokes, init_signalled, setup, pool_lock, workerv,
                   result_chan, dispatchv, kernelv, statsv, simplev>>

\* the end of the pre-warm block: the lock guard is dropped
P_PrewarmDone ==
    /\ variant = "pool"
    /\ dpc = "prewarm"
    /\ prewarm_i = pool_size(num_cores)
    /\ pool_lock' = "free"
    /\ dpc' = "spawn"
    /\ UNCHANGED <<fieldv, inputs, pokes, init_signalled, setup, kernel_pool, constructed,
                   scratch, prewarm_i, workerv, result_chan,
                   dispatchv, kernelv, statsv, simplev>>

Workers == DOMAIN wpc

\* the channels, `for worker_id in 0..num_workers { tokio::spawn(..) }`, drop(result_tx)
P_Spawn ==
    /\ variant = "pool"
    /\ dpc = "spawn"
    /\ wpc' = [w \in 0..(num_workers - 1) |-> "recv"]
    /\ candidate_rx' = [w \in 0..(num_workers - 1) |-> <<>>]
    /\ held' = [w \in 0..(num_workers - 1) |-> {}]
    /\ cur' = [w \in 0..(num_workers - 1) |-> 0]
    /\ result' = [w \in 0..(num_workers - 1) |-> None]
    /\ current_worker' = 0
    /\ dpc' = "loop"
    /\ UNCHANGED <<fieldv, inputs, pokes, init_signalled, setup, poolv, result_chan,
                   candidates, dispatched, kernelv, statsv, simplev>>

\* the front kernel handed out but left in the queue
front_kept(pool) == pool

\* pool.pop_front(): what is left in the queue
pop_front(pool) == Tail(pool)

\* return_kernel: `if pool.len() < 8 { pool.push_back(..) }`
push_back_if_room(pool, k) == IF Len(pool) < POOL_MAX THEN Append(pool, k) ELSE pool

\* the worker keeps the pair it handed back
still_owned(h, k) == h

\* what a worker owns after handing k to return_kernel (a move)
moved_out(h, k) == h \ {k}

(***************************************************************************)
(* mining.rs: the dispatcher loop of create_mining_driver.                 *)
(***************************************************************************)
\* the cursor left where it is
same_worker(c, n) == c

\* `current_worker = (current_worker + 1) % num_workers`
next_worker(c, n) == (c + 1) % n

\* the driver task is in its select! loop: result_rx and worker_txs are alive
DriverAlive == dpc = "loop"

\* worker_tx.send(..) returns Err when the worker's receiver has been dropped,
\* which is when the worker's task has ended
SendFails(w) == wpc[w] = "stopped"

\* the `mine` effects the node sends: MaxCandidates of them, and one more for
\* every worker whose task has ended under a running dispatcher
CandidateBound == MaxCandidates + Cardinality({w \in Workers : SendFails(w)})

\* a dispatcher that moves the cursor only after a send that succeeded
P_MineEffectStalling ==
    /\ variant = "pool"
    /\ dpc = "loop"
    /\ effect_stream = "open"
    /\ candidates < CandidateBound
    /\ candidates' = candidates + 1
    /\ IF current_worker \in Workers /\ ~SendFails(current_worker)
       THEN /\ candidate_rx' = [candidate_rx EXCEPT
                                  ![current_worker] = Append(@, candidates + 1)]
            /\ dispatched' = Append(dispatched, <<candidates + 1, current_worker>>)
            /\ current_worker' = next_worker(current_worker, num_workers)
       ELSE UNCHANGED <<candidate_rx, dispatched, current_worker>>
    /\ UNCHANGED <<fieldv, inputs, dpc, pokes, init_signalled, setup, poolv, wpc, held, cur,
                   result, result_chan, kernelv, statsv, simplev>>

\* an effect whose head is %mine: the tail goes to the worker under the cursor;
\* a failed send is logged and the candidate is gone
P_MineEffect ==
    /\ variant = "pool"
    /\ dpc = "loop"
    /\ effect_stream = "open"
    /\ candidates < CandidateBound
    /\ candidates' = candidates + 1
    /\ IF current_worker \in Workers
       THEN /\ IF SendFails(current_worker)
               THEN UNCHANGED <<candidate_rx, dispatched>>
               ELSE /\ candidate_rx' = [candidate_rx EXCEPT
                                          ![current_worker] = Append(@, candidates + 1)]
                    /\ dispatched' = Append(dispatched,
                                            <<candidates + 1, current_worker>>)
            /\ current_worker' = next_worker(current_worker, num_workers)
       ELSE UNCHANGED <<candidate_rx, dispatched, current_worker>>
    /\ UNCHANGED <<fieldv, inputs, dpc, pokes, init_signalled, setup, poolv, wpc, held, cur,
                   result, result_chan, kernelv, statsv, simplev>>

\* next_effect() returned Err, a non-cell effect, or a cell not headed %mine
P_IgnoredEffect ==
    /\ variant = "pool"
    /\ dpc = "loop"
    /\ UNCHANGED vars

\* a dispatcher that relays the newest result on the channel, not the oldest
P_RecvNewestResult ==
    /\ variant = "pool"
    /\ dpc = "loop"
    /\ result_chan # <<>>
    /\ \E ok \in BOOLEAN :
          /\ pokes' = Append(pokes, Poke("Mined", "effect",
                                         result_chan[Len(result_chan)], ok))
          /\ IF ok
             THEN /\ result_chan' = SubSeq(result_chan, 1, Len(result_chan) - 1)
                  /\ UNCHANGED dpc
             ELSE /\ result_chan' = <<>>
                  /\ dpc' = "panicked"
    /\ UNCHANGED <<fieldv, inputs, init_signalled, setup, poolv, workerv, dispatchv,
                   kernelv, statsv, simplev>>

\* result_rx.recv() returned Some(result_slab): poke it under the `mined` wire
P_RecvResult ==
    /\ variant = "pool"
    /\ dpc = "loop"
    /\ result_chan # <<>>
    /\ \E ok \in BOOLEAN :
          /\ pokes' = Append(pokes, Poke("Mined", "effect", Head(result_chan), ok))
          /\ IF ok
             THEN /\ result_chan' = Tail(result_chan)
                  /\ UNCHANGED dpc
             ELSE \* .expect(..) panics: the task ends, result_rx is dropped
                  /\ result_chan' = <<>>
                  /\ dpc' = "panicked"
    /\ UNCHANGED <<fieldv, inputs, init_signalled, setup, poolv, workerv, dispatchv,
                   kernelv, statsv, simplev>>

(***************************************************************************)
(* mining.rs: optimized_mining_worker and optimized_mining_attempt.        *)
(***************************************************************************)
\* the for loop over effects_slab.to_vec(): index of the first cell headed
\* %command at or after i, 0 when there is none
\* the scan without its `break`: the last %command effect wins
RECURSIVE last_command(_, _)
last_command(effects, i) ==
    IF i > Len(effects) THEN 0
    ELSE LET later == last_command(effects, i + 1)
         IN IF later # 0 THEN later
            ELSE IF effects[i] = "command" THEN i ELSE 0

\* the scan without its head test: the first cell wins
RECURSIVE first_cell(_, _)
first_cell(effects, i) ==
    IF i > Len(effects) THEN 0
    ELSE IF effects[i] = "atom" THEN first_cell(effects, i + 1)
    ELSE i

RECURSIVE first_command(_, _)
first_command(effects, i) ==
    IF i > Len(effects) THEN 0
    ELSE IF effects[i] = "atom" THEN first_command(effects, i + 1)
    ELSE IF effects[i] = "command" THEN i
    ELSE first_command(effects, i + 1)

\* An effect headed %command is named <<c, n>>: the n-th %command effect of the
\* list the kernel returned for candidate c.
CommandOrdinal(effects, i) == Cardinality({j \in 1..i : effects[j] = "command"})

\* the %command effects of candidate c in an effect list
Commands(c, effects) == {<<c, n>> : n \in 1..CommandOrdinal(effects, Len(effects))}

\* a receive that takes the newest queued candidate instead of the oldest
W_RecvNewest(w) ==
    /\ wpc[w] = "recv"
    /\ candidate_rx[w] # <<>>
    /\ cur' = [cur EXCEPT ![w] = candidate_rx[w][Len(candidate_rx[w])]]
    /\ candidate_rx' = [candidate_rx EXCEPT ![w] = SubSeq(@, 1, Len(@) - 1)]
    /\ wpc' = [wpc EXCEPT ![w] = "get_kernel"]
    /\ UNCHANGED <<fieldv, inputs, dpc, pokes, init_signalled, setup, poolv, held, result,
                   result_chan, dispatchv, kernelv, statsv, simplev>>

\* candidate_rx.recv().await returned Some(candidate)
W_Recv(w) ==
    /\ wpc[w] = "recv"
    /\ candidate_rx[w] # <<>>
    /\ cur' = [cur EXCEPT ![w] = Head(candidate_rx[w])]
    /\ candidate_rx' = [candidate_rx EXCEPT ![w] = Tail(@)]
    /\ wpc' = [wpc EXCEPT ![w] = "get_kernel"]
    /\ UNCHANGED <<fieldv, inputs, dpc, pokes, init_signalled, setup, poolv, held, result,
                   result_chan, dispatchv, kernelv, statsv, simplev>>

\* candidate_rx.recv().await returned None: every sender is gone
W_RecvClosed(w) ==
    /\ wpc[w] = "recv"
    /\ candidate_rx[w] = <<>>
    /\ ~DriverAlive
    /\ wpc' = [wpc EXCEPT ![w] = "stopped"]
    /\ UNCHANGED <<fieldv, inputs, dpc, pokes, init_signalled, setup, poolv, candidate_rx,
                   held, cur, result, result_chan, dispatchv, kernelv, statsv,
                   simplev>>

\* a lease that takes the kernel that was handed back last
get_kernel_newest(w) ==
    /\ wpc[w] = "get_kernel"
    /\ pool_lock = "free"
    /\ IF kernel_pool # <<>>
       THEN /\ held' = [held EXCEPT ![w] = @ \cup {kernel_pool[Len(kernel_pool)]}]
            /\ kernel_pool' = SubSeq(kernel_pool, 1, Len(kernel_pool) - 1)
            /\ wpc' = [wpc EXCEPT ![w] = "poke"]
       ELSE /\ wpc' = [wpc EXCEPT ![w] = "create"]
            /\ UNCHANGED <<held, kernel_pool>>
    /\ UNCHANGED <<fieldv, inputs, dpc, pokes, init_signalled, setup, pool_lock,
                   constructed, scratch, prewarm_i, candidate_rx, cur, result,
                   result_chan, dispatchv, kernelv, statsv, simplev>>

\* mining_state.get_kernel().await
get_kernel(w) ==
    /\ wpc[w] = "get_kernel"
    /\ pool_lock = "free"
    /\ IF kernel_pool # <<>>
       THEN /\ held' = [held EXCEPT ![w] = @ \cup {Head(kernel_pool)}]
            /\ kernel_pool' = pop_front(kernel_pool)
            /\ wpc' = [wpc EXCEPT ![w] = "poke"]
       ELSE /\ wpc' = [wpc EXCEPT ![w] = "create"]
            /\ UNCHANGED <<held, kernel_pool>>
    /\ UNCHANGED <<fieldv, inputs, dpc, pokes, init_signalled, setup, pool_lock, constructed,
                   scratch, prewarm_i, candidate_rx, cur, result,
                   result_chan, dispatchv, kernelv, statsv, simplev>>

\* a worker that goes back to waiting after a failed construction without
\* recording the attempt
create_kernel_instance_unrecorded(w) ==
    /\ wpc[w] = "create"
    /\ \E ok \in CreateOutcomes :
          IF ok
          THEN /\ constructed' = NewKernel
               /\ scratch' = scratch \cup {NewKernel}
               /\ held' = [held EXCEPT ![w] = @ \cup {NewKernel}]
               /\ wpc' = [wpc EXCEPT ![w] = "poke"]
               /\ UNCHANGED <<result, aborted>>
          ELSE /\ result' = [result EXCEPT ![w] = None]
               /\ aborted' = aborted \cup {cur[w]}
               /\ wpc' = [wpc EXCEPT ![w] = "recv"]
               /\ UNCHANGED <<constructed, scratch, held>>
    /\ UNCHANGED <<fieldv, inputs, dpc, pokes, init_signalled, setup, kernel_pool,
                   pool_lock, prewarm_i, candidate_rx, cur, result_chan, dispatchv,
                   produced, statsv, simplev>>

\* the pool was empty: create_kernel_instance(..).await, `return None` on Err
create_kernel_instance(w) ==
    /\ wpc[w] = "create"
    /\ \E ok \in CreateOutcomes :
          IF ok
          THEN /\ constructed' = NewKernel
               /\ scratch' = scratch \cup {NewKernel}
               /\ held' = [held EXCEPT ![w] = @ \cup {NewKernel}]
               /\ wpc' = [wpc EXCEPT ![w] = "poke"]
               /\ UNCHANGED <<result, aborted>>
          ELSE /\ result' = [result EXCEPT ![w] = None]
               /\ aborted' = aborted \cup {cur[w]}
               /\ wpc' = [wpc EXCEPT ![w] = "record"]
               /\ UNCHANGED <<constructed, scratch, held>>
    /\ UNCHANGED <<fieldv, inputs, dpc, pokes, init_signalled, setup, kernel_pool, pool_lock,
                   prewarm_i, candidate_rx, cur, result_chan, dispatchv, produced,
                   statsv, simplev>>

\* kernel.poke(MiningWire::Candidate.to_wire(), candidate).await and the scan
kernel_poke(w) ==
    /\ wpc[w] = "poke"
    /\ \/ \E effects \in EffectLists :
             LET i == first_command(effects, 1)
             IN /\ produced' = produced \cup Commands(cur[w], effects)
                /\ result' = [result EXCEPT
                                ![w] = IF i = 0 THEN None
                                       ELSE Some(<<cur[w], CommandOrdinal(effects, i)>>)]
                /\ UNCHANGED aborted
       \/ \* Err(e)
          /\ result' = [result EXCEPT ![w] = None]
          /\ aborted' = aborted \cup {cur[w]}
          /\ UNCHANGED produced
    /\ wpc' = [wpc EXCEPT ![w] = "return"]
    /\ UNCHANGED <<fieldv, inputs, dpc, pokes, init_signalled, setup, poolv, candidate_rx,
                   held, cur, result_chan, dispatchv, statsv, simplev>>

\* a release that deletes the scratch directory of the kernel it queues
return_kernel_deleting(w) ==
    /\ wpc[w] = "return"
    /\ pool_lock = "free"
    /\ \E k \in held[w] :
          /\ kernel_pool' = push_back_if_room(kernel_pool, k)
          /\ scratch' = scratch \ {k}
          /\ held' = [held EXCEPT ![w] = moved_out(@, k)]
    /\ wpc' = [wpc EXCEPT ![w] = "record"]
    /\ UNCHANGED <<fieldv, inputs, dpc, pokes, init_signalled, setup, pool_lock,
                   constructed, prewarm_i, candidate_rx, cur, result,
                   result_chan, dispatchv, kernelv, statsv, simplev>>

\* a worker that hands the kernel back only after a successful attempt
return_kernel_on_success(w) ==
    /\ wpc[w] = "return"
    /\ pool_lock = "free"
    /\ IF result[w] = None
       THEN UNCHANGED <<kernel_pool, scratch, held>>
       ELSE \E k \in held[w] :
               /\ kernel_pool' = push_back_if_room(kernel_pool, k)
               /\ scratch' = IF Len(kernel_pool) < POOL_MAX THEN scratch
                             ELSE scratch \ {k}
               /\ held' = [held EXCEPT ![w] = moved_out(@, k)]
    /\ wpc' = [wpc EXCEPT ![w] = "record"]
    /\ UNCHANGED <<fieldv, inputs, dpc, pokes, init_signalled, setup, pool_lock,
                   constructed, prewarm_i, candidate_rx, cur, result,
                   result_chan, dispatchv, kernelv, statsv, simplev>>

\* mining_state.return_kernel(kernel, temp_dir).await
return_kernel(w) ==
    /\ wpc[w] = "return"
    /\ pool_lock = "free"
    /\ \E k \in held[w] :
          /\ kernel_pool' = push_back_if_room(kernel_pool, k)
          /\ scratch' = IF Len(kernel_pool) < POOL_MAX THEN scratch ELSE scratch \ {k}
          /\ held' = [held EXCEPT ![w] = moved_out(@, k)]
    /\ wpc' = [wpc EXCEPT ![w] = "record"]
    /\ UNCHANGED <<fieldv, inputs, dpc, pokes, init_signalled, setup, pool_lock, constructed,
                   prewarm_i, candidate_rx, cur, result,
                   result_chan, dispatchv, kernelv, statsv, simplev>>

\* record_attempt: total_attempts.fetch_add(1)
record_attempt_total(w) ==
    /\ wpc[w] = "record"
    /\ total_attempts' = total_attempts + 1
    /\ wpc' = [wpc EXCEPT ![w] = "record_outcome"]
    /\ UNCHANGED <<fieldv, inputs, dpc, pokes, init_signalled, setup, poolv, candidate_rx,
                   held, cur, result, result_chan, dispatchv, kernelv,
                   successful_blocks, failed_attempts, worker_stats, simplev>>

\* a record_attempt that counts successes only
record_attempt_outcome_successes_only(w) ==
    LET success == result[w] # None
    IN /\ wpc[w] = "record_outcome"
       /\ successful_blocks' = successful_blocks + (IF success THEN 1 ELSE 0)
       /\ UNCHANGED failed_attempts
       /\ worker_stats' = [worker_stats EXCEPT
                             ![w] = [attempts |-> @.attempts + (IF success THEN 1 ELSE 0),
                                     successes |-> @.successes + (IF success THEN 1 ELSE 0)]]
       /\ wpc' = [wpc EXCEPT ![w] = IF success THEN "send" ELSE "recv"]
       /\ UNCHANGED <<fieldv, inputs, dpc, pokes, init_signalled, setup, poolv, candidate_rx,
                      held, cur, result, result_chan, dispatchv, kernelv,
                      total_attempts, simplev>>

\* record_attempt: the success or failure counter and the worker's own entry;
\* then `if let Some(result_slab) = result` in the worker
record_attempt_outcome(w) ==
    LET success == result[w] # None
    IN /\ wpc[w] = "record_outcome"
       /\ successful_blocks' = successful_blocks + (IF success THEN 1 ELSE 0)
       /\ failed_attempts' = failed_attempts + (IF success THEN 0 ELSE 1)
       /\ worker_stats' = [worker_stats EXCEPT
                             ![w] = [attempts |-> @.attempts + 1,
                                     successes |-> @.successes + (IF success THEN 1 ELSE 0)]]
       /\ wpc' = [wpc EXCEPT ![w] = IF success THEN "send" ELSE "recv"]
       /\ UNCHANGED <<fieldv, inputs, dpc, pokes, init_signalled, setup, poolv, candidate_rx,
                      held, cur, result, result_chan, dispatchv, kernelv,
                      total_attempts, simplev>>

\* a worker that goes on to its next candidate after a send that failed
send_result_continuing(w) ==
    /\ wpc[w] = "send"
    /\ IF DriverAlive
       THEN result_chan' = Append(result_chan, result[w][1])
       ELSE UNCHANGED result_chan
    /\ wpc' = [wpc EXCEPT ![w] = "recv"]
    /\ result' = [result EXCEPT ![w] = None]
    /\ UNCHANGED <<fieldv, inputs, dpc, pokes, init_signalled, setup, poolv, candidate_rx,
                   held, cur, dispatchv, kernelv, statsv, simplev>>

\* result_tx.send(result_slab): `break` when the receiver is gone
send_result(w) ==
    /\ wpc[w] = "send"
    /\ IF DriverAlive
       THEN /\ result_chan' = Append(result_chan, result[w][1])
            /\ wpc' = [wpc EXCEPT ![w] = "recv"]
       ELSE /\ wpc' = [wpc EXCEPT ![w] = "stopped"]
            /\ UNCHANGED result_chan
    /\ result' = [result EXCEPT ![w] = None]
    /\ UNCHANGED <<fieldv, inputs, dpc, pokes, init_signalled, setup, poolv, candidate_rx,
                   held, cur, dispatchv, kernelv, statsv, simplev>>

NextPool ==
    \/ P_NoConfigEnable
    \/ P_NoConfigInit
    \/ P_SetKey
    \/ P_Enable
    \/ P_SignalInit
    \/ P_NewState
    \/ P_Prewarm
    \/ P_PrewarmDone
    \/ P_Spawn
    \/ P_MineEffect
    \/ P_IgnoredEffect
    \/ P_RecvResult
    \/ \E w \in Workers : W_Recv(w)
    \/ \E w \in Workers : W_RecvClosed(w)
    \/ \E w \in Workers : get_kernel(w)
    \/ \E w \in Workers : create_kernel_instance(w)
    \/ \E w \in Workers : kernel_poke(w)
    \/ \E w \in Workers : return_kernel(w)
    \/ \E w \in Workers : record_attempt_total(w)
    \/ \E w \in Workers : record_attempt_outcome(w)
    \/ \E w \in Workers : send_result(w)


(***************************************************************************)
(* mining_simple_optimized.rs: startup of create_mining_driver.            *)
(***************************************************************************)
S_NoConfigEnable == NoConfigEnable("simple")

S_NoConfigInit == NoConfigInit("simple")

\* the end of one iteration of `for attempt in 1..=3` that did not break:
\* sleep 5 s and go round again, or leave the loop after the third
S_NextAttempt ==
    IF attempt < SETUP_ATTEMPTS
    THEN /\ attempt' = attempt + 1
         /\ dpc' = "setup_key"
    ELSE /\ dpc' = "init"
         /\ UNCHANGED attempt

\* key_result = set_mining_key(..).await or set_mining_key_advanced(..).await
S_SetKey ==
    /\ variant = "simple"
    /\ \/ dpc = "start" /\ mining_config # None
       \/ dpc = "setup_key"
    /\ \E ok \in BOOLEAN :
          /\ pokes' = Append(pokes, KeyPoke(configs, ok))
          /\ IF ok
             THEN dpc' = "setup_enable" /\ UNCHANGED attempt
             ELSE S_NextAttempt
    /\ UNCHANGED <<fieldv, inputs, init_signalled, setup_success, poolv, workerv,
                   result_chan, dispatchv, kernelv, statsv, simplev>>

\* a setup loop without its `break`
S_EnableNoBreak ==
    /\ variant = "simple"
    /\ dpc = "setup_enable"
    /\ \E ok \in BOOLEAN :
          /\ pokes' = Append(pokes, enable_mining(mine, ok))
          /\ setup_success' = (setup_success \/ ok)
          /\ S_NextAttempt
    /\ UNCHANGED <<fieldv, inputs, init_signalled, poolv, workerv, result_chan, dispatchv,
                   kernelv, statsv, simplev>>

\* `if enable_mining(&handle, mine).await.is_ok() { setup_success = true; break; }`
S_Enable ==
    /\ variant = "simple"
    /\ dpc = "setup_enable"
    /\ \E ok \in BOOLEAN :
          /\ pokes' = Append(pokes, enable_mining(mine, ok))
          /\ IF ok
             THEN /\ setup_success' = TRUE
                  /\ dpc' = "init"
                  /\ UNCHANGED attempt
             ELSE /\ S_NextAttempt
                  /\ UNCHANGED setup_success
    /\ UNCHANGED <<fieldv, inputs, init_signalled, poolv, workerv, result_chan, dispatchv,
                   kernelv, statsv, simplev>>

\* the init-complete send, `if !mine { return Ok(()); }`, then the loop's locals
S_SignalInit ==
    /\ variant = "simple"
    /\ dpc = "init"
    /\ init_signalled' = (init_complete_tx = "open")
    /\ dpc' = IF InitSendFails THEN "returned_err"
              ELSE IF EntersMainLoop(mine) THEN "loop"
              ELSE "returned_ok"
    /\ UNCHANGED <<fieldv, inputs, pokes, setup, poolv, workerv, result_chan, dispatchv,
                   kernelv, statsv, simplev>>

(***************************************************************************)
(* mining_simple_optimized.rs: the main loop and optimized_mining_attempt. *)
(***************************************************************************)
\* current_attempt.spawn(optimized_mining_attempt(candidate_slab, ..))
Spawned(c) == [pc |-> "record", cand |-> c, effects |-> <<>>, idx |-> 0]

\* !current_attempt.is_empty()
AttemptInFlight == current_attempt.pc # "none"

\* a driver that starts every candidate at once, in place of the running attempt
S_MineEffectRestarting ==
    /\ variant = "simple"
    /\ dpc = "loop"
    /\ effect_stream = "open"
    /\ candidates < MaxSimpleCandidates
    /\ candidates' = candidates + 1
    /\ current_attempt' = Spawned(candidates + 1)
    /\ UNCHANGED next_attempt
    /\ UNCHANGED <<fieldv, inputs, dpc, pokes, init_signalled, setup, poolv, workerv,
                   result_chan, current_worker, dispatched, kernelv, statsv>>

\* an effect whose head is %mine
S_MineEffect ==
    /\ variant = "simple"
    /\ dpc = "loop"
    /\ effect_stream = "open"
    /\ candidates < MaxSimpleCandidates
    /\ candidates' = candidates + 1
    /\ IF AttemptInFlight
       THEN /\ next_attempt' = Some(candidates + 1)
            /\ UNCHANGED current_attempt
       ELSE /\ current_attempt' = Spawned(candidates + 1)
            /\ UNCHANGED next_attempt
    /\ UNCHANGED <<fieldv, inputs, dpc, pokes, init_signalled, setup, poolv, workerv,
                   result_chan, current_worker, dispatched, kernelv, statsv>>

\* next_effect() returned Err, a non-cell effect, or a cell not headed %mine
S_IgnoredEffect ==
    /\ variant = "simple"
    /\ dpc = "loop"
    /\ UNCHANGED vars

\* a driver that forgets the queued candidate when the attempt returns
S_JoinNextForgetting ==
    /\ variant = "simple"
    /\ dpc = "loop"
    /\ current_attempt.pc = "finished"
    /\ current_attempt' = NoTask
    /\ next_attempt' = None
    /\ UNCHANGED <<fieldv, inputs, dpc, pokes, init_signalled, setup, poolv, workerv,
                   result_chan, dispatchv, kernelv, statsv>>

\* current_attempt.join_next() returned: start the queued candidate, if any
S_JoinNext ==
    /\ variant = "simple"
    /\ dpc = "loop"
    /\ current_attempt.pc = "finished"
    /\ IF next_attempt = None
       THEN /\ current_attempt' = NoTask
            /\ UNCHANGED next_attempt
       ELSE /\ current_attempt' = Spawned(next_attempt[1])
            /\ next_attempt' = None
    /\ UNCHANGED <<fieldv, inputs, dpc, pokes, init_signalled, setup, poolv, workerv,
                   result_chan, dispatchv, kernelv, statsv>>

\* stats.record_attempt()
A_RecordAttempt ==
    /\ current_attempt.pc = "record"
    /\ total_attempts' = total_attempts + 1
    /\ current_attempt' = [current_attempt EXCEPT !.pc = "load"]
    /\ UNCHANGED <<fieldv, inputs, dpc, pokes, init_signalled, setup, poolv, workerv,
                   result_chan, dispatchv, kernelv, successful_blocks,
                   failed_attempts, worker_stats, next_attempt>>

\* tempdir(), the hot state and Kernel::load_with_hot_state_huge: `return` on error
A_Load ==
    /\ current_attempt.pc = "load"
    /\ \E ok \in CreateOutcomes :
          current_attempt' = [current_attempt EXCEPT
                                 !.pc = IF ok THEN "poke" ELSE "finished"]
    /\ UNCHANGED <<fieldv, inputs, dpc, pokes, init_signalled, setup, poolv, workerv,
                   result_chan, dispatchv, kernelv, statsv, next_attempt>>

\* kernel.poke(MiningWire::Candidate.to_wire(), candidate).await
A_Poke ==
    /\ current_attempt.pc = "poke"
    /\ \/ \E effects \in EffectLists :
             /\ produced' = produced \cup Commands(current_attempt.cand, effects)
             /\ current_attempt' =
                   [current_attempt EXCEPT
                      !.pc = IF effects = <<>> THEN "finished" ELSE "scan",
                      !.effects = effects,
                      !.idx = 1]
       \/ \* Err(e): `return`
          /\ current_attempt' = [current_attempt EXCEPT !.pc = "finished"]
          /\ UNCHANGED produced
    /\ UNCHANGED aborted
    /\ UNCHANGED <<fieldv, inputs, dpc, pokes, init_signalled, setup, poolv, workerv,
                   result_chan, dispatchv, statsv, next_attempt>>

\* one iteration of `for effect in effects_slab.to_vec()`
A_Scan ==
    /\ current_attempt.pc = "scan"
    /\ LET i == current_attempt.idx
           effect == current_attempt.effects[i]
           last == i = Len(current_attempt.effects)
       IN /\ current_attempt' =
                [current_attempt EXCEPT
                   !.pc = IF last THEN "finished" ELSE "scan",
                   !.effects = IF last THEN <<>> ELSE @,
                   !.idx = IF last THEN 0 ELSE i + 1]
          /\ IF effect = "command"
             THEN \E ok \in BOOLEAN :
                     /\ pokes' = Append(pokes,
                                   Poke("Mined", "effect",
                                        <<current_attempt.cand,
                                          CommandOrdinal(current_attempt.effects, i)>>, ok))
                     /\ successful_blocks' = successful_blocks + (IF ok THEN 1 ELSE 0)
             ELSE UNCHANGED <<pokes, successful_blocks>>
    /\ UNCHANGED <<fieldv, inputs, dpc, init_signalled, setup, poolv, workerv, result_chan,
                   dispatchv, kernelv, total_attempts, failed_attempts,
                   worker_stats, next_attempt>>

simple_mining_attempt ==
    \/ A_RecordAttempt
    \/ A_Load
    \/ A_Poke
    \/ A_Scan

NextSimple ==
    \/ S_NoConfigEnable
    \/ S_NoConfigInit
    \/ S_SetKey
    \/ S_Enable
    \/ S_SignalInit
    \/ S_MineEffect
    \/ S_IgnoredEffect
    \/ S_JoinNext
    \/ simple_mining_attempt

Next == NextPool \/ NextSimple

Spec == Init /\ [][Next]_vars

(***************************************************************************)
(* mining.rs alone, with a plain key or no configuration.                  *)
(***************************************************************************)
PoolInit ==
    /\ variant = "pool"
    /\ mining_config \in {None, Some(<< MiningKeyConfig(1, 1, <<11>>) >>)}
    /\ mine \in BOOLEAN
    /\ init_complete_tx \in {"open", "dropped"}
    /\ num_cores \in 1..MaxCores
    /\ InitState
    /\ FieldIdle

PoolSpec == PoolInit /\ [][NextPool]_vars


(***************************************************************************)
(* mining.rs alone on machines whose pre-warming fills the pool.           *)
(***************************************************************************)
CapInit ==
    /\ variant = "pool"
    /\ mining_config \in {None, Some(<< MiningKeyConfig(1, 1, <<11>>) >>)}
    /\ mine \in BOOLEAN
    /\ init_complete_tx \in {"open", "dropped"}
    /\ num_cores \in (POOL_MAX \div 2)..MaxCapCores
    /\ InitState
    /\ FieldIdle

CapSpec == CapInit /\ [][NextPool]_vars

(***************************************************************************)
(* mining.rs under the scheduling of the tokio runtime: every spawned      *)
(* worker task that can take a step eventually takes one, and the driver's *)
(* select! eventually takes a result that is waiting on the channel.       *)
(***************************************************************************)
WorkerIds == 0..(Min(MaxCores, MAX_WORKERS) - 1)

WorkerStep(w) ==
    /\ w \in Workers
    /\ \/ W_Recv(w)
       \/ W_RecvClosed(w)
       \/ get_kernel(w)
       \/ create_kernel_instance(w)
       \/ kernel_poke(w)
       \/ return_kernel(w)
       \/ record_attempt_total(w)
       \/ record_attempt_outcome(w)
       \/ send_result(w)

FairPoolSpec ==
    /\ PoolInit
    /\ [][NextPool]_vars
    /\ WF_vars(P_RecvResult)
    /\ \A w \in WorkerIds : WF_vars(WorkerStep(w))

(***************************************************************************)
(* Properties.                                                             *)
(***************************************************************************)
\* the pokes sent under the `mined` wire, in order
MinedPokes == SelectSeq(pokes, LAMBDA p : p.wire = "mined")

\* effect e reached the node as a `mined` poke
Delivered(e) ==
    \E i \in 1..Len(pokes) :
       /\ pokes[i].wire = "mined"
       /\ pokes[i].payload = e
       /\ pokes[i].ok

\* the driver is in its loop and no attempt or result is under way
Quiescent ==
    /\ dpc = "loop"
    /\ result_chan = <<>>
    /\ \A w \in Workers : wpc[w] = "recv" /\ candidate_rx[w] = <<>>

\* the candidates sent to worker w so far
Sent(w) == Cardinality({i \in 1..Len(dispatched) : dispatched[i][2] = w})

RECURSIVE SumHeld(_)
SumHeld(W) ==
    IF W = {} THEN 0
    ELSE LET w == CHOOSE x \in W : TRUE
         IN Cardinality(held[w]) + SumHeld(W \ {w})

\* the kernels workers hold at this moment
Leased == SumHeld(Workers)

\* C1 as stated: every %command effect a kernel produced for a dispatched
\* candidate reaches the node as a `mined` poke.  Once the driver is in its loop
\* with no attempt and no result under way nothing more will be delivered, so
\* every effect produced so far must have been delivered by then.
C1_EveryCommandDelivered ==
    Quiescent => \A e \in produced : Delivered(e)

\* C1, amended: the first %command effect a kernel produces for a dispatched
\* candidate is eventually delivered to the node as a `mined` poke, unless a
\* `mined` poke fails (which ends the driver).
C1_FirstCommandDelivered ==
    \A c \in 1..MaxCandidates :
       (<<c, 1>> \in produced) ~> (Delivered(<<c, 1>>) \/ dpc = "panicked")

\* two attempts produced a %command effect and both reached the node
C1_Witness ==
    /\ Len(MinedPokes) = 2
    /\ \A c \in 1..2 : <<c, 1>> \in produced /\ Delivered(<<c, 1>>)

\* C2: every `mined` poke carries a %command effect some kernel produced for a
\* dispatched candidate, there are never more `mined` pokes than produced
\* %command effects, and no `mined` poke belongs to an attempt whose lease or
\* kernel poke failed.
C2_NoSpuriousMined ==
    /\ \A i \in 1..Len(pokes) :
          pokes[i].wire = "mined" =>
             /\ pokes[i].payload \in produced
             /\ \E j \in 1..Len(dispatched) : dispatched[j][1] = pokes[i].payload[1]
             /\ pokes[i].payload[1] \notin aborted
    /\ Len(MinedPokes) <= Cardinality(produced)

\* one attempt was aborted, another one's result was poked to the node
C2_Witness ==
    /\ aborted # {}
    /\ Len(MinedPokes) >= 1

\* C3: the i-th candidate (0-based) goes to worker i mod N; after K candidates
\* every worker has been sent floor(K/N) or ceil(K/N) of them, so any two
\* workers differ by at most one.
C3_RoundRobin ==
    LET K == Len(dispatched)
        N == num_workers
    IN /\ K = candidates
       /\ \A i \in 1..K : dispatched[i] = <<i, (i - 1) % N>>
       /\ \A w \in Workers : Sent(w) \in {K \div N, (K + N - 1) \div N}
       /\ \A v, w \in Workers : Sent(v) - Sent(w) <= 1

\* two workers, two candidates, one each
C3_Witness ==
    /\ Workers = {0, 1}
    /\ Sent(0) = 1
    /\ Sent(1) = 1

\* C4: the idle queue never holds more than POOL_MAX kernels.
C4_PoolBound == Len(kernel_pool) <= POOL_MAX

\* a worker has just handed its kernel back and the queue is at POOL_MAX
C4_Witness ==
    /\ Len(kernel_pool) = POOL_MAX
    /\ \E w \in Workers : wpc[w] = "record" /\ cur[w] \notin aborted

\* C5: no kernel is owned by two workers, none is owned by a worker while it is
\* in the idle queue, and none is in the idle queue twice.
C5_ExclusiveLease ==
    /\ \A v, w \in Workers : v # w => held[v] \cap held[w] = {}
    /\ \A w \in Workers : held[w] \cap Range(kernel_pool) = {}
    /\ Cardinality(Range(kernel_pool)) = Len(kernel_pool)

\* two workers hold a kernel each while others are idle in the queue
C5_Witness ==
    /\ kernel_pool # <<>>
    /\ \E v, w \in Workers : v # w /\ held[v] # {} /\ held[w] # {}

\* C6: a worker owns at most one kernel, and owns none when it asks for one:
\* the kernel of its previous attempt has been returned or dropped by then.
C6_OneLeasePerWorker ==
    \A w \in Workers :
       /\ Cardinality(held[w]) <= 1
       /\ wpc[w] \in {"get_kernel", "create"} => held[w] = {}
       /\ held[w] # {} => wpc[w] \in {"poke", "return"}

\* a worker holds a kernel in an attempt that is not its first
C6_Witness ==
    \E w \in Workers : held[w] # {} /\ worker_stats[w].attempts >= 1

\* C7: leased kernels plus idle kernels never exceed the kernels constructed.
C7_PoolAccounting == Leased + Len(kernel_pool) <= constructed

\* a kernel is leased, another is idle, and every kernel constructed is one of them
C7_Witness ==
    /\ Leased >= 1
    /\ Len(kernel_pool) >= 1
    /\ Leased + Len(kernel_pool) = constructed

\* the driver never got past startup: no pool, no worker, no candidate taken
NoMining ==
    /\ dpc \notin {"new_state", "prewarm", "spawn", "loop", "panicked"}
    /\ Workers = {}
    /\ kernel_pool = <<>>
    /\ constructed = 0
    /\ pool_lock = "free"
    /\ candidates = 0
    /\ dispatched = <<>>
    /\ total_attempts = 0
    /\ current_attempt = NoTask
    /\ next_attempt = None

\* the last poke the driver sent returned Err
LastPokeFailed == pokes # <<>> /\ ~pokes[Len(pokes)].ok

IsKeyPoke(p) == p.cmd \in {"set-mining-key", "set-mining-key-advanced"}

IsEnablePoke(p) == p.cmd = "enable-mining"

C9_NoConfigExitsOk ==
    mining_config = None /\ dpc \in {"returned_ok", "returned_err"} =>
       /\ Len(pokes) = 1
       /\ IsEnablePoke(pokes[1])
       /\ pokes[1].payload = D(1)
       /\ init_complete_tx # "none" => init_signalled
       /\ dpc = "returned_ok"

\* C9, amended: with no configuration, whatever `mine` is, the driver sends one
\* poke, enable-mining with payload 1, and no key-setup poke; it spawns nothing;
\* it signals init-complete only after that poke succeeded; it returns Ok when
\* the poke succeeded and the init-complete send (if a channel was supplied)
\* succeeded, and an error otherwise.
C9_NoConfigStartup ==
    mining_config = None =>
       /\ NoMining
       /\ dpc \in {"start", "noconfig_init", "returned_ok", "returned_err"}
       /\ Len(pokes) = (IF dpc = "start" THEN 0 ELSE 1)
       /\ \A i \in 1..Len(pokes) :
             /\ pokes[i].wire = "enable"
             /\ IsEnablePoke(pokes[i])
             /\ pokes[i].payload = D(1)
       /\ init_signalled => pokes[1].ok /\ init_complete_tx = "open"
       /\ dpc = "returned_ok" =>
             /\ pokes[1].ok
             /\ init_complete_tx = "open" => init_signalled
       /\ dpc = "returned_err" => ~pokes[1].ok \/ init_complete_tx = "dropped"

\* no configuration, mine = true: one poke, init-complete signalled, returned Ok
C9_Witness ==
    /\ mining_config = None
    /\ mine
    /\ Len(pokes) = 1
    /\ init_signalled
    /\ dpc = "returned_ok"

\* C10: with a configuration, every enable-mining poke comes after a key-setup
\* poke, init-complete is signalled only after an enable-mining poke was
\* emitted, and workers are spawned and candidates dispatched only after the
\* init-complete step.
C10_StartupOrdering ==
    mining_config # None =>
       /\ \A i \in 1..Len(pokes) :
             IsEnablePoke(pokes[i]) => \E j \in 1..(i - 1) : IsKeyPoke(pokes[j])
       /\ init_signalled => \E i \in 1..Len(pokes) : IsEnablePoke(pokes[i])
       /\ Workers # {} \/ candidates > 0 \/ constructed > 0 =>
             /\ init_complete_tx = "open" => init_signalled
             /\ \E i \in 1..Len(pokes) : IsEnablePoke(pokes[i])

\* the key-setup pokes sent so far, in order
KeyPokes == SelectSeq(pokes, IsKeyPoke)

\* the driver will send no further key-setup poke
PastKeySetup == dpc \notin {"start", "setup_key"}

\* C11: with a configuration, at most three key-setup pokes are sent; none is
\* sent after one that succeeded; when every one of them failed and the driver
\* has left key setup, three were sent; and after fail, fail, success the driver
\* that got past startup has signalled init-complete.
C11_KeySetupRetry ==
    mining_config # None =>
       LET K == KeyPokes
       IN /\ Len(K) <= SETUP_ATTEMPTS
          /\ \A i \in 1..(Len(K) - 1) : ~K[i].ok
          /\ PastKeySetup /\ (\A i \in 1..Len(K) : ~K[i].ok) => Len(K) = SETUP_ATTEMPTS
          /\ /\ Len(K) = SETUP_ATTEMPTS
             /\ K[SETUP_ATTEMPTS].ok
             /\ init_complete_tx = "open"
             /\ dpc \in {"loop", "new_state", "returned_ok"}
             => init_signalled

\* three key-setup pokes were sent and every one of them failed
Exhausted ==
    /\ Len(KeyPokes) >= SETUP_ATTEMPTS
    /\ \A i \in 1..Len(KeyPokes) : ~KeyPokes[i].ok

\* C12: once all three key-setup attempts have failed the driver neither
\* panics nor returns an error because of them, and no candidate is dispatched
\* or attempted afterwards, even when mine = true.
C12_ExhaustionDisablesMining ==
    mining_config # None /\ Exhausted =>
       /\ dpc # "panicked"
       /\ dpc = "returned_err" => init_complete_tx = "dropped"
       /\ candidates = 0
       /\ dispatched = <<>>
       /\ total_attempts = 0
       /\ current_attempt = NoTask

(***************************************************************************)
(* The startup of both drivers over every small configuration list.        *)
(***************************************************************************)
\* n distinct keys
KeyIds(n) == [i \in 1..n |-> 10 + i]

ShareChoices == {1, 2}

ConfigEntries ==
    {MiningKeyConfig(share, m, KeyIds(k)) :
        share \in ShareChoices, m \in ShareChoices, k \in 0..MaxKeys}

StartupConfigChoices ==
    {None} \cup {Some(c) : c \in SeqsUpTo(ConfigEntries, MaxConfigs)}

StartupInit ==
    /\ variant \in {"pool", "simple"}
    /\ mining_config \in StartupConfigChoices
    /\ mine \in BOOLEAN
    /\ init_complete_tx \in {"open", "dropped"}
    /\ num_cores = 1
    /\ InitState
    /\ FieldIdle

StartupNext ==
    \/ P_NoConfigEnable
    \/ P_NoConfigInit
    \/ P_SetKey
    \/ P_Enable
    \/ P_SignalInit
    \/ S_NoConfigEnable
    \/ S_NoConfigInit
    \/ S_SetKey
    \/ S_Enable
    \/ S_SignalInit

StartupSpec == StartupInit /\ [][StartupNext]_vars

\* the elements of a nil-terminated list noun, head first
RECURSIVE list_items(_)
list_items(noun) ==
    IF noun = D(0) THEN <<>>
    ELSE <<noun[1]>> \o list_items(noun[2])

\* C13: a key-setup poke is `set-mining-key`, carrying the single key, exactly
\* when the configuration list has one entry with share = 1, m = 1 and one key;
\* otherwise it is `set-mining-key-advanced`; one run never sends both verbs,
\* and a driver that left key setup has sent a key-setup poke.
C13_KeyVerbSelection ==
    mining_config # None =>
       LET c == mining_config[1]
           single == /\ Len(c) = 1
                     /\ c[1].share = 1
                     /\ c[1].m = 1
                     /\ Len(c[1].keys) = 1
       IN /\ \A i \in 1..Len(pokes) :
                IsKeyPoke(pokes[i]) =>
                   /\ pokes[i].wire = "setpubkey"
                   /\ pokes[i].cmd = (IF single THEN "set-mining-key"
                                      ELSE "set-mining-key-advanced")
                   /\ single => pokes[i].payload = <<c[1].keys[1]>>
          /\ \A i, j \in 1..Len(KeyPokes) : KeyPokes[i].cmd = KeyPokes[j].cmd
          /\ PastKeySetup => Len(KeyPokes) >= 1

\* one entry with share = 1 and m = 1 but two keys: the advanced verb was sent
C13_Witness ==
    /\ mining_config # None
    /\ Len(mining_config[1]) = 1
    /\ mining_config[1][1].share = 1
    /\ mining_config[1][1].m = 1
    /\ Len(mining_config[1][1].keys) = 2
    /\ \E i \in 1..Len(pokes) :
          pokes[i].cmd = "set-mining-key-advanced" /\ pokes[i].ok

\* C14: every enable-mining poke carries 0 when mining is to be enabled (a
\* configuration and mine = true) and 1 when it is to be disabled (mine = false,
\* or no configuration), in both drivers.
C14_EnablePayload ==
    \A i \in 1..Len(pokes) :
       IsEnablePoke(pokes[i]) =>
          /\ pokes[i].wire = "enable"
          /\ pokes[i].payload = <<IF mining_config # None /\ mine THEN 0 ELSE 1>>

\* a configured driver with mine = true has sent enable-mining with payload 0
C14_Witness ==
    /\ mining_config # None
    /\ mine
    /\ \E i \in 1..Len(pokes) :
          IsEnablePoke(pokes[i]) /\ pokes[i].payload = <<0>> /\ pokes[i].ok

\* C15: the payload of set-mining-key-advanced is a nil-terminated list with
\* one [share m keylist] triple per input configuration, in the reverse of the
\* input order: the last configuration at the head, the first one deepest.  Each
\* keylist is nil-terminated and built the same way.
C15_AdvancedEncoding ==
    \A i \in 1..Len(pokes) :
       pokes[i].cmd = "set-mining-key-advanced" =>
          LET c == mining_config[1]
              n == Len(c)
              items == list_items(pokes[i].payload)
          IN /\ Len(items) = n
             /\ \A j \in 1..n :
                   LET cfg == c[n + 1 - j]
                       nk == Len(cfg.keys)
                       ks == list_items(items[j][2][2])
                   IN /\ items[j][1] = <<cfg.share>>
                      /\ items[j][2][1] = <<cfg.m>>
                      /\ Len(ks) = nk
                      /\ \A k \in 1..nk : ks[k] = <<cfg.keys[nk + 1 - k]>>

\* the advanced poke was sent for two configurations that differ
C15_Witness ==
    /\ mining_config # None
    /\ Len(mining_config[1]) = 2
    /\ mining_config[1][1] # mining_config[1][2]
    /\ \E i \in 1..Len(pokes) :
          pokes[i].cmd = "set-mining-key-advanced" /\ pokes[i].ok

\* C16: a `mined` poke carries the first %command effect of its attempt, and
\* no attempt has two `mined` pokes: later %command effects of the attempt and
\* all other effects are ignored.
C16_FirstMatchScan ==
    \A i \in 1..Len(pokes) :
       pokes[i].wire = "mined" =>
          /\ pokes[i].payload[2] = 1
          /\ \A j \in 1..Len(pokes) :
                j # i /\ pokes[j].wire = "mined" =>
                   pokes[j].payload[1] # pokes[i].payload[1]

\* a `mined` poke returned Err
MinedPokeFailed ==
    \E i \in 1..Len(pokes) : pokes[i].wire = "mined" /\ ~pokes[i].ok

\* C17: once a `mined` poke has failed the dispatcher has terminated, and from
\* then on no candidate is taken from the effect stream or dispatched and no
\* poke is sent.
C17_MinedPokeFailureFatal ==
    [][MinedPokeFailed =>
          /\ dpc = "panicked"
          /\ pokes' = pokes
          /\ candidates' = candidates
          /\ dispatched' = dispatched]_vars

\* C19: every step that pokes the node is a step of the dispatcher task: it
\* leaves the local state of every worker task and of the mining attempt as it
\* was.
C19_DispatcherPokesAlone ==
    [][pokes' # pokes =>
          /\ UNCHANGED <<wpc, cur, held, result>>
          /\ current_attempt' = current_attempt]_vars

\* the candidates sent to worker w so far, in the order they were sent
DispatchedTo(w) ==
    LET sel == SelectSeq(dispatched, LAMBDA d : d[2] = w)
    IN [i \in 1..Len(sel) |-> sel[i][1]]

\* C20: candidates are dispatched in the order their `mine` effects arrive, and
\* each worker takes the candidates sent to it in that order, skipping none:
\* what waits in its queue is the tail of what it was sent, the candidate it
\* last took is the one just before that tail, and every candidate before that
\* one has been attempted.
C20_FifoDispatch ==
    /\ \A i \in 1..Len(dispatched) : dispatched[i][1] = i
    /\ \A w \in Workers :
          LET sent == DispatchedTo(w)
              queue == candidate_rx[w]
              taken == Len(sent) - Len(queue)
          IN /\ taken >= 0
             /\ queue = SubSeq(sent, taken + 1, Len(sent))
             /\ cur[w] = (IF taken = 0 THEN 0 ELSE sent[taken])
             /\ worker_stats[w].attempts =
                   (IF wpc[w] \in {"recv", "send", "stopped"} THEN taken
                    ELSE taken - 1)

\* a worker is attempting its second candidate after having attempted its first
C20_Witness ==
    \E w \in Workers :
       /\ DispatchedTo(w) = <<1, 2>>
       /\ cur[w] = 2
       /\ wpc[w] = "poke"
       /\ worker_stats[w].attempts = 1

(***************************************************************************)
(* Both drivers with a node that may close its effect stream.  In the      *)
(* specifications above the stream stays open; closing it only takes       *)
(* `mine` effects away, so it adds no state of the other variables.        *)
(***************************************************************************)
\* next_effect() returned Err because the stream closed:
\* `let Ok(effect) = effect_res else { warn!(..); continue; }`
EffectError(v) ==
    /\ variant = v
    /\ dpc = "loop"
    /\ effect_stream = "open"
    /\ effect_stream' = "closed"
    /\ UNCHANGED <<fieldv, variant, mining_config, mine, init_complete_tx,
                   num_cores, dpc, pokes, init_signalled, setup, poolv, workerv, result_chan,
                   dispatchv, kernelv, statsv, simplev>>

P_EffectError == EffectError("pool")

S_EffectError == EffectError("simple")

NextClosing ==
    \/ Next
    \/ P_EffectError
    \/ S_EffectError

ClosingSpec == Init /\ [][NextClosing]_vars

\* no candidate is queued or being attempted and no result waits to be relayed
NothingInFlight ==
    /\ result_chan = <<>>
    /\ \A w \in Workers : wpc[w] \in {"recv", "stopped"} /\ candidate_rx[w] = <<>>
    /\ current_attempt = NoTask
    /\ next_attempt = None

\* C18: after the effect stream has closed the dispatcher leaves its main loop
\* and the workers, their queues drained, stop.  Once the stream is closed and
\* nothing is in flight no step is left that could bring this about, so by then
\* the dispatcher must be out of its loop and every worker stopped.
C18_ShutdownOnStreamClose ==
    effect_stream = "closed" /\ NothingInFlight =>
       /\ dpc # "loop"
       /\ \A w \in Workers : wpc[w] = "stopped"


(***************************************************************************)
(* Order of delivery of mined pokes.                                       *)
(***************************************************************************)
\* C21: mined pokes reach the node in the order in which workers put their
\* results on the result channel: a worker's send appends its result at the
\* back of the channel, and every mined poke carries the result at the front
\* of the channel, which that step takes off.  The order in which the
\* candidates arrived plays no part.
C21_ResultChannelOrder ==
    [][/\ \A w \in Workers :
             (wpc[w] = "send" /\ wpc'[w] = "recv")
                => result_chan' = Append(result_chan, result[w][1])
       /\ Len(MinedPokes') > Len(MinedPokes)
             => /\ result_chan # <<>>
                /\ MinedPokes' = Append(MinedPokes, pokes'[Len(pokes')])
                /\ pokes'[Len(pokes')].payload = Head(result_chan)
                /\ pokes'[Len(pokes')].ok => result_chan' = Tail(result_chan)
       /\ Len(result_chan') < Len(result_chan)
             => Len(MinedPokes') = Len(MinedPokes) + 1]_vars

\* the result for the candidate dispatched second was delivered before the
\* result for the candidate dispatched first, and both were delivered
C21_Witness ==
    \E i, j \in 1..Len(pokes) :
       /\ i < j
       /\ pokes[i].wire = "mined" /\ pokes[i].ok /\ pokes[i].payload[1] = 2
       /\ pokes[j].wire = "mined" /\ pokes[j].ok /\ pokes[j].payload[1] = 1
       /\ Len(dispatched) >= 2
       /\ dispatched[1][1] = 1 /\ dispatched[2][1] = 2

(***************************************************************************)
(* Base field arithmetic (zkvm-jetpack, form/math).  A u64 is a sequence   *)
(* of 8 bytes and a u128 a sequence of 16 bytes, least significant byte    *)
(* first, so that every operation keeps the width it has in the code.      *)
(***************************************************************************)
\* F applied to the value of x, which is computed once
ApplyTo(x, F(_)) == CHOOSE y \in {F(v) : v \in {x}} : TRUE

RECURSIVE bytes(_, _)
bytes(n, len) ==
    IF len = 0 THEN <<>> ELSE <<n % 256>> \o bytes(n \div 256, len - 1)

\* the literal n as a u64
u64(n) == bytes(n, 8)

\* `x as u128` of a u64, `n as u64` of a u128, `(n >> 64) as u64`
as_u128(x) == x \o bytes(0, 8)
as_u64(n) == SubSeq(n, 1, 8)
high_u64(n) == SubSeq(n, 9, 16)

\* 1u64 << k
shl1(k) == bytes(0, k \div 8) \o <<2 ^ (k % 8)>> \o bytes(0, 7 - (k \div 8))

\* the bytes i.. of a + b + c, with the carry out as the last byte
RECURSIVE add_carry(_, _, _, _)
add_carry(a, b, i, c) ==
    IF i > Len(a) THEN <<c>>
    ELSE LET s == a[i] + b[i] + c
         IN <<s % 256>> \o add_carry(a, b, i + 1, s \div 256)

\* the bytes i.. of a - b - br, with the borrow out as the last byte
RECURSIVE sub_borrow(_, _, _, _)
sub_borrow(a, b, i, br) ==
    IF i > Len(a) THEN <<br>>
    ELSE LET d == a[i] - b[i] - br
         IN <<(d + 256) % 256>>
               \o sub_borrow(a, b, i + 1, IF d < 0 THEN 1 ELSE 0)

\* a.wrapping_add(b), a.wrapping_sub(b), a < b and a >= b at one width
wrapping_add(a, b) ==
    ApplyTo(<<a, b>>, LAMBDA p : SubSeq(add_carry(p[1], p[2], 1, 0), 1, Len(p[1])))
wrapping_sub(a, b) ==
    ApplyTo(<<a, b>>, LAMBDA p : SubSeq(sub_borrow(p[1], p[2], 1, 0), 1, Len(p[1])))
lt(a, b) ==
    ApplyTo(<<a, b>>, LAMBDA p : sub_borrow(p[1], p[2], 1, 0)[Len(p[1]) + 1] = 1)
ge(a, b) == ~lt(a, b)

\* the product of two u64 as a u128: (a as u128) * (b as u128)
RECURSIVE column(_, _, _, _)
column(a, b, k, i) ==
    IF i > Len(a) THEN 0
    ELSE (IF k + 1 - i \in 1..Len(b) THEN a[i] * b[k + 1 - i] ELSE 0)
            + column(a, b, k, i + 1)

RECURSIVE mul_columns(_, _, _, _)
mul_columns(a, b, k, c) ==
    IF k > Len(a) + Len(b) THEN <<>>
    ELSE LET s == column(a, b, k, 1) + c
         IN <<s % 256>> \o mul_columns(a, b, k + 1, s \div 256)

widening_mul(a, b) == ApplyTo(<<a, b>>, LAMBDA p : mul_columns(p[1], p[2], 1, 0))

\* bit i of n, and n >> 1
bit(n, i) == (n[(i \div 8) + 1] \div (2 ^ (i % 8))) % 2
RECURSIVE shr1_from(_, _)
shr1_from(v, i) ==
    IF i > Len(v) THEN <<>>
    ELSE <<(v[i] \div 2) + (IF i < Len(v) THEN (v[i + 1] % 2) * 128 ELSE 0)>>
            \o shr1_from(v, i + 1)

shr1(n) == ApplyTo(n, LAMBDA v : shr1_from(v, 1))

\* n % m for a u128 n and a u128 m below 2^64, by long division: the
\* remainder r takes in the bits hi down to lo of n, one bit at a time
rem_bit(m, r, b) ==
    ApplyTo(SubSeq(add_carry(r, r, 1, b), 1, Len(r)),
            LAMBDA r2 : IF ge(r2, m) THEN wrapping_sub(r2, m) ELSE r2)

RECURSIVE rem_bits(_, _, _, _, _)
rem_bits(n, m, r, hi, lo) ==
    IF hi = lo THEN rem_bit(m, r, bit(n, hi))
    ELSE LET mid == (hi + lo) \div 2
         IN ApplyTo(rem_bits(n, m, r, hi, mid + 1),
                    LAMBDA r2 : rem_bits(n, m, r2, mid, lo))

rem(n, m) ==
    ApplyTo(<<n, m>>, LAMBDA p :
       rem_bits(p[1], p[2], bytes(0, Len(p[1])), (8 * Len(p[1])) - 1, 0))

PRIME == <<1, 0, 0, 0, 255, 255, 255, 255>>
PRIME_PRIME == wrapping_sub(PRIME, u64(2))
PRIME_128 == as_u128(PRIME)
REDUCTION_MASK == wrapping_sub(shl1(32), u64(1))

\* is_x86_feature_detected!(f)
is_x86_feature_detected(f) == f \in cpu

(* base.rs *)
badd(a, b) ==
    LET sum == wrapping_add(a, b)
    IN IF ge(sum, PRIME) \/ lt(sum, a) THEN wrapping_sub(sum, PRIME) ELSE sum

reduce(n) ==
    LET low == as_u64(n)
        high == high_u64(n)
    IN IF high = u64(0)
       THEN IF ge(low, PRIME) THEN wrapping_sub(low, PRIME) ELSE low
       ELSE LET high_reduced == widening_mul(high, REDUCTION_MASK)
                total == wrapping_add(as_u128(low), high_reduced)
            IN IF ge(total, PRIME_128)
               THEN as_u64(wrapping_sub(total, PRIME_128))
               ELSE as_u64(total)

bmul(a, b) == reduce(widening_mul(a, b))

\* one turn of the loop `while b > 0 { .. }` of bpow on <<a, b, result>>;
\* the loop has ended when b = 0
bpow_turn(s) ==
    ApplyTo(s, LAMBDA v :
       IF v[2] = u64(0) THEN v
       ELSE <<bmul(v[1], v[1]), shr1(v[2]),
              IF v[2][1] % 2 = 1 THEN bmul(v[3], v[1]) ELSE v[3]>>)

\* k turns of the loop
RECURSIVE bpow_turns(_, _)
bpow_turns(s, k) ==
    IF k = 1 THEN bpow_turn(s)
    ELSE ApplyTo(bpow_turns(s, k \div 2),
                 LAMBDA t : bpow_turns(t, k - (k \div 2)))

\* b >>= 1 reaches 0 within 64 turns
bpow(a, b) ==
    IF b = u64(0) THEN u64(1)
    ELSE IF b = u64(1) THEN a
    ELSE bpow_turns(<<a, b, u64(1)>>, 64)[3]

\* None is the panic "Division by zero in field"
binv(a) == IF a = u64(0) THEN None ELSE Some(bpow(a, PRIME_PRIME))

bdiv(a, b) ==
    ApplyTo(binv(b), LAMBDA i : IF i = None THEN None ELSE Some(bmul(a, i[1])))

\* result[i] = badd(a[i], b[i]) for i in i..a.len()
RECURSIVE badd_batch_from(_, _, _)
badd_batch_from(a, b, i) ==
    IF i > Len(a) THEN <<>>
    ELSE <<badd(a[i], b[i])>> \o badd_batch_from(a, b, i + 1)

badd_batch(a, b) == badd_batch_from(a, b, 1)

(* base_optimized.rs *)
\* _mm256_cmpgt_epi64 on one lane: the lanes compare as signed integers
cmpgt_epi64(x, y) ==
    LET flip(z) == [z EXCEPT ![8] = (z[8] + 128) % 256]
    IN lt(flip(y), flip(x))

\* one 64-bit lane of badd_avx2_batch
badd_avx2_lane(a, b) ==
    LET sum == wrapping_add(a, b)
        overflow_mask == cmpgt_epi64(sum, PRIME)
        reduced == wrapping_sub(sum, PRIME)
    IN IF overflow_mask THEN reduced ELSE sum

\* the lanes i.. of the vectors; every turn of the loop takes four of them
RECURSIVE badd_avx2_batch_from(_, _, _)
badd_avx2_batch_from(a, b, i) ==
    IF i > Len(a) THEN <<>>
    ELSE <<badd_avx2_lane(a[i], b[i])>> \o badd_avx2_batch_from(a, b, i + 1)

badd_avx2_batch(a, b) == badd_avx2_batch_from(a, b, 1)

badd_fast(a, b) ==
    LET sum == wrapping_add(a, b)
    IN IF ge(sum, PRIME) \/ lt(sum, a) THEN wrapping_sub(sum, PRIME) ELSE sum

optimized_badd(a, b) ==
    IF is_x86_feature_detected("avx2") THEN badd_fast(a, b)
    ELSE as_u64(rem(wrapping_add(as_u128(a), as_u128(b)), PRIME_128))

reduce_fast(n) ==
    LET low == as_u64(n)
        high == high_u64(n)
        high_reduced == widening_mul(high, wrapping_sub(shl1(32), u64(1)))
        total == wrapping_add(as_u128(low), high_reduced)
    IN IF ge(total, PRIME_128)
       THEN as_u64(wrapping_sub(total, PRIME_128))
       ELSE as_u64(total)

optimized_reduce(n) ==
    IF is_x86_feature_detected("bmi2") THEN reduce_fast(n)
    ELSE as_u64(rem(n, PRIME_128))

bmul_fast(a, b) == reduce_fast(widening_mul(a, b))

optimized_bmul(a, b) ==
    IF is_x86_feature_detected("bmi2") THEN bmul_fast(a, b)
    ELSE optimized_reduce(widening_mul(a, b))

\* one turn of the loop `while b > 0 { .. }` of bpow_fast on <<a, b, result>>
bpow_fast_turn(s) ==
    ApplyTo(s, LAMBDA v :
       IF v[2] = u64(0) THEN v
       ELSE <<bmul_fast(v[1], v[1]), shr1(v[2]),
              IF v[2][1] % 2 = 1 THEN bmul_fast(v[3], v[1]) ELSE v[3]>>)

RECURSIVE bpow_fast_turns(_, _)
bpow_fast_turns(s, k) ==
    IF k = 1 THEN bpow_fast_turn(s)
    ELSE ApplyTo(bpow_fast_turns(s, k \div 2),
                 LAMBDA t : bpow_fast_turns(t, k - (k \div 2)))

bpow_fast(a, b) ==
    IF b = u64(0) THEN u64(1)
    ELSE IF b = u64(1) THEN a
    ELSE bpow_fast_turns(<<a, b, u64(1)>>, 64)[3]

\* one turn of the loop `while b > 1 { .. }` of the original bpow on
\* <<a, b, c>>: b /= 2 and b = (b - 1) / 2 are both b >> 1
bpow_original_turn(s) ==
    ApplyTo(s, LAMBDA v :
       IF ~lt(u64(1), v[2]) THEN v
       ELSE <<optimized_reduce(widening_mul(v[1], v[1])), shr1(v[2]),
              IF v[2][1] % 2 = 0 THEN v[3]
              ELSE optimized_reduce(widening_mul(v[3], v[1]))>>)

RECURSIVE bpow_original_turns(_, _)
bpow_original_turns(s, k) ==
    IF k = 1 THEN bpow_original_turn(s)
    ELSE ApplyTo(bpow_original_turns(s, k \div 2),
                 LAMBDA t : bpow_original_turns(t, k - (k \div 2)))

optimized_bpow(a, b) ==
    IF is_x86_feature_detected("bmi2") THEN bpow_fast(a, b)
    ELSE IF b = u64(0) THEN u64(1)
    ELSE ApplyTo(bpow_original_turns(<<a, b, u64(1)>>, 64),
                 LAMBDA s : optimized_reduce(widening_mul(s[3], s[1])))

\* static SMALL_INVERSES: [u64; 256] = [0; 256], indexed from 0
SMALL_INVERSES == [i \in 0..255 |-> u64(0)]

binv_fast(a) ==
    IF a = u64(0) THEN None
    ELSE IF a = u64(1) THEN Some(u64(1))
    ELSE IF lt(a, u64(256)) THEN Some(SMALL_INVERSES[a[1]])
    ELSE Some(bpow_fast(a, PRIME_PRIME))

optimized_binv(a) ==
    IF is_x86_feature_detected("bmi2") THEN binv_fast(a)
    ELSE Some(optimized_bpow(a, PRIME_PRIME))

optimized_bdiv(a, b) ==
    ApplyTo(optimized_binv(b),
            LAMBDA i : IF i = None THEN None ELSE Some(optimized_bmul(a, i[1])))

RECURSIVE optimized_badd_batch_from(_, _, _)
optimized_badd_batch_from(a, b, i) ==
    IF i > Len(a) THEN <<>>
    ELSE <<optimized_badd(a[i], b[i])>> \o optimized_badd_batch_from(a, b, i + 1)

optimized_badd_batch(a, b) ==
    IF is_x86_feature_detected("avx2") /\ Len(a) >= 4 /\ Len(a) % 4 = 0
    THEN badd_avx2_batch(a, b)
    ELSE optimized_badd_batch_from(a, b, 1)

(***************************************************************************)
(* One call of a field function.  The caller picks the module, the         *)
(* function and its arguments; the machine it runs on fixes the features.  *)
(***************************************************************************)
\* the field elements calls are made with
FieldElems ==
    {u64(n) : n \in 0..MaxSmall}
       \cup {u64(255), u64(256), u64(888), shl1(32), shl1(49),
             wrapping_sub(PRIME, u64(1))}

\* the numerators and the divisors bdiv is called with
Numerators == {u64(1), wrapping_sub(PRIME, u64(1))}
Divisors == {u64(0), u64(2), shl1(32)}

\* the vectors badd_batch is called with
BatchLanes == {u64(1), wrapping_sub(PRIME, u64(1))}
Batches(len) == [1..len -> BatchLanes]

FieldInit ==
    /\ variant = "field"
    /\ mining_config = None
    /\ mine = FALSE
    /\ init_complete_tx = "open"
    /\ num_cores = 1
    /\ InitState
    /\ cpu \in SUBSET {"avx2", "bmi2"}
    /\ fimpl \in {"base", "optimized"}
    /\ fpc = "call"
    /\ fout = <<>>
    /\ \/ fcall \in {"reduce", "badd", "bmul"} /\ fa \in FieldElems /\ fb \in FieldElems
       \/ fcall = "binv" /\ fa \in FieldElems /\ fb = <<>>
       \/ fcall = "bdiv" /\ fa \in Numerators /\ fb \in Divisors
       \/ /\ fcall = "badd_batch"
          /\ \E len \in (MaxBatch - 1)..MaxBatch :
                fa \in Batches(len) /\ fb \in Batches(len)

\* the call returns x, or panics when x is None
Return(x) ==
    /\ fpc' = (IF x = None THEN "panicked" ELSE "returned")
    /\ fout' = x
    /\ UNCHANGED <<cpu, fimpl, fcall, fa, fb, inputs, dpc, pokes, init_signalled,
                   setup, poolv, workerv, result_chan, dispatchv, kernelv, statsv,
                   simplev>>

Calling(f) == variant = "field" /\ fpc = "call" /\ fcall = f

\* reduce(n) for the u128 n whose low half is fa and whose high half is fb
F_reduce ==
    /\ Calling("reduce")
    /\ Return(Some(IF fimpl = "base" THEN reduce(fa \o fb)
                   ELSE optimized_reduce(fa \o fb)))

F_badd ==
    /\ Calling("badd")
    /\ Return(Some(IF fimpl = "base" THEN badd(fa, fb) ELSE optimized_badd(fa, fb)))

F_bmul ==
    /\ Calling("bmul")
    /\ Return(Some(IF fimpl = "base" THEN bmul(fa, fb) ELSE optimized_bmul(fa, fb)))

F_binv ==
    /\ Calling("binv")
    /\ Return(IF fimpl = "base" THEN binv(fa) ELSE optimized_binv(fa))

F_bdiv ==
    /\ Calling("bdiv")
    /\ Return(IF fimpl = "base" THEN bdiv(fa, fb) ELSE optimized_bdiv(fa, fb))

F_badd_batch ==
    /\ Calling("badd_batch")
    /\ Return(Some(IF fimpl = "base" THEN badd_batch(fa, fb)
                   ELSE optimized_badd_batch(fa, fb)))

FieldNext == F_reduce \/ F_badd \/ F_bmul \/ F_binv \/ F_bdiv \/ F_badd_batch

FieldSpec == FieldInit /\ [][FieldNext]_vars

(***************************************************************************)
(* Properties of the field functions.                                      *)
(***************************************************************************)
Returned(f) == fpc = "returned" /\ fcall = f

\* n mod p and a * b mod p, computed by long division
mod_p(n) == as_u64(rem(n, PRIME_128))

\* the scalar functions of the module that was called
scalar_bmul(a, b) == IF fimpl = "base" THEN bmul(a, b) ELSE optimized_bmul(a, b)
scalar_badd(a, b) == IF fimpl = "base" THEN badd(a, b) ELSE optimized_badd(a, b)

\* C22: reduce(n) is below p and equal to n mod p for every 128-bit n, and
\* so mul(a, b) is a * b mod p.
C22_ReduceIsModP ==
    /\ Returned("reduce") => /\ lt(fout[1], PRIME)
                             /\ fout[1] = mod_p(fa \o fb)
    /\ Returned("bmul") => fout[1] = mod_p(widening_mul(fa, fb))

\* C23: for every a with 0 < a < p, mul(a, inv(a)) = 1, on every code path
\* of both implementations.
C23_InverseIsInverse ==
    (Returned("binv") /\ fa # u64(0)) => scalar_bmul(fa, fout[1]) = u64(1)

\* C24: a batch function returns, lane by lane, what the scalar function of
\* the same module returns.
C24_BatchMatchesScalar ==
    Returned("badd_batch") =>
       \A i \in 1..Len(fa) : fout[1][i] = scalar_badd(fa[i], fb[i])

\* C25: inv(0) and div(a, 0) abort: such a call never returns a value.
C25_ZeroInverseAborts ==
    /\ (fcall = "binv" /\ fa = u64(0)) => fpc # "returned"
    /\ (fcall = "bdiv" /\ fb = u64(0)) => fpc # "returned"

(***************************************************************************)
(* Leases of the worker.                                                   *)
(***************************************************************************)
\* C26: a worker that obtained a lease hands it back when the attempt ends,
\* whatever the outcome, before the outcome is recorded and before the
\* result is sent: a worker owns a kernel only between the lease and the
\* release, and every kernel constructed is idle in the pool or leased.
C26_ReleaseBeforeRecord ==
    /\ \A w \in Workers :
          /\ wpc[w] \in {"poke", "return"} => Cardinality(held[w]) = 1
          /\ wpc[w] \notin {"poke", "return"} => held[w] = {}
    /\ pool_lock = "free" =>
          1..constructed = Range(kernel_pool) \cup UNION {held[w] : w \in Workers}

\* a worker whose first attempt failed in kernel.poke is about to record it,
\* and the kernel it had leased is back in the pool
C26_Witness ==
    \E w \in Workers :
       /\ wpc[w] = "record"
       /\ result[w] = None
       /\ cur[w] \in aborted
       /\ constructed = 1
       /\ kernel_pool = <<1>>
       /\ total_attempts = 0

\* the attempts worker w has finished: the candidates it took off its queue,
\* less the one it is working on
Finished(w) ==
    (Len(DispatchedTo(w)) - Len(candidate_rx[w]))
       - (IF wpc[w] \in {"recv", "stopped"} THEN 0 ELSE 1)

RECURSIVE SumFinished(_)
SumFinished(W) ==
    IF W = {} THEN 0
    ELSE LET w == CHOOSE x \in W : TRUE
         IN Finished(w) + SumFinished(W \ {w})

\* `return None` of the lease: the pool was empty and construction failed
LeaseFailed(w) == wpc[w] = "create" /\ wpc'[w] = "record"

\* C27: an attempt whose lease fails (the pool is empty and construction
\* fails) yields no result, adds exactly one to total_attempts and one to
\* failed_attempts, produces no mined poke, and leaves the worker waiting for
\* the next candidate and the dispatcher running.  While no kernel was ever
\* constructed every attempt is such an attempt, so the counters equal the
\* number of attempts finished.
C27_LeaseFailure ==
    /\ [](constructed = 0 =>
            /\ \A w \in Workers : wpc[w] \in {"recv", "get_kernel", "create",
                                                "record", "record_outcome"}
            /\ successful_blocks = 0
            /\ failed_attempts = SumFinished(Workers)
            /\ total_attempts = failed_attempts
                  + Cardinality({w \in Workers : wpc[w] = "record_outcome"})
            /\ result_chan = <<>>
            /\ MinedPokes = <<>>
            /\ total_attempts > 0 => dpc = "loop")
    /\ [][\A w \in Workers :
            /\ LeaseFailed(w) =>
                  /\ result'[w] = None
                  /\ held'[w] = {}
                  /\ UNCHANGED <<pokes, result_chan, dpc, statsv, kernel_pool>>
            /\ (wpc[w] = "record" /\ wpc'[w] # "record") =>
                  /\ wpc'[w] = "record_outcome"
                  /\ total_attempts' = total_attempts + 1
                  /\ UNCHANGED <<failed_attempts, successful_blocks, result, pokes,
                                 result_chan, dpc>>
            /\ (wpc[w] = "record_outcome" /\ result[w] = None
                  /\ wpc'[w] # "record_outcome") =>
                  /\ wpc'[w] = "recv"
                  /\ failed_attempts' = failed_attempts + 1
                  /\ UNCHANGED <<total_attempts, successful_blocks, pokes,
                                 result_chan, dpc>>]_vars

\* no kernel could ever be constructed; a worker has finished one attempt and
\* waits for the next candidate, and the dispatcher is in its loop
C27_Witness ==
    /\ constructed = 0
    /\ dpc = "loop"
    /\ total_attempts = 1
    /\ failed_attempts = 1
    /\ \E w \in Workers :
          /\ wpc[w] = "recv"
          /\ worker_stats[w].attempts = 1
          /\ worker_stats[w].successes = 0

(***************************************************************************)
(* The pool mutex.                                                         *)
(***************************************************************************)
\* C28: the pool mutex is held only for an enqueue or a dequeue: no kernel
\* is constructed and no candidate is submitted to a kernel while it is held,
\* at pool initialisation as well as in lease and release.
C28_NoConstructionUnderLock ==
    [][(constructed' # constructed \/ produced' # produced \/ aborted' # aborted)
          => (pool_lock = "free" /\ pool_lock' = "free")]_vars

\* C29: a lease takes the kernel that has been idle longest (kernels are
\* queued at the back and taken from the front), and a worker constructs a
\* kernel only when it found the queue empty.
C29_FifoLease ==
    [][/\ \A w \in Workers :
             /\ (held'[w] # held[w] /\ held'[w] # {}) =>
                   \/ /\ kernel_pool # <<>>
                      /\ held'[w] = held[w] \cup {Head(kernel_pool)}
                      /\ kernel_pool' = Tail(kernel_pool)
                      /\ UNCHANGED constructed
                   \/ /\ wpc[w] = "create"
                      /\ constructed' = constructed + 1
                      /\ held'[w] = held[w] \cup {constructed'}
                      /\ UNCHANGED kernel_pool
             /\ (wpc[w] = "get_kernel" /\ wpc'[w] = "create") => kernel_pool = <<>>
             /\ (wpc[w] = "get_kernel" /\ wpc'[w] = "poke") => kernel_pool # <<>>
       /\ Len(kernel_pool') > Len(kernel_pool)
             => \E k \in 1..constructed' : kernel_pool' = Append(kernel_pool, k)]_vars

\* kernel 1 was leased and handed back, and is queued behind nothing else;
\* the next lease took kernel 2, which had been idle since the pre-warm
C29_Witness ==
    \E w \in Workers :
       /\ wpc[w] = "poke"
       /\ held[w] = {2}
       /\ kernel_pool = <<1>>
       /\ total_attempts >= 1

(***************************************************************************)
(* Scratch directories.                                                    *)
(***************************************************************************)
\* the kernel worker w hands back in this step
Released(w, k) == k \in held[w] /\ k \notin held'[w]

\* C30: the scratch directory of every idle and of every leased kernel
\* exists.  A release into a pool of fewer than POOL_MAX kernels queues the
\* kernel and keeps its directory; a release into a full pool drops the
\* kernel and deletes its directory; no other step deletes a directory.
C30_ScratchDirs ==
    /\ [](Range(kernel_pool) \cup UNION {held[w] : w \in Workers} \subseteq scratch)
    /\ [][/\ \A w \in Workers : \A k \in 1..constructed :
                Released(w, k) =>
                   IF Len(kernel_pool) < POOL_MAX
                   THEN kernel_pool' = Append(kernel_pool, k) /\ scratch' = scratch
                   ELSE kernel_pool' = kernel_pool /\ scratch' = scratch \ {k}
          /\ \A k \in scratch \ scratch' :
                /\ Len(kernel_pool) = POOL_MAX
                /\ \E w \in Workers : Released(w, k)]_vars

\* a worker has handed its kernel back: the kernel is idle in the pool again
\* and its scratch directory is still there
C30_Witness ==
    \E w \in Workers :
       /\ wpc[w] = "record"
       /\ held[w] = {}
       /\ kernel_pool # <<>>
       /\ kernel_pool[Len(kernel_pool)] \in scratch
       /\ Len(kernel_pool) = constructed


(***************************************************************************)
(* Attempts recorded by the workers.                                       *)
(***************************************************************************)
\* the candidates worker w has taken off its input channel
Consumed(w) == Len(DispatchedTo(w)) - Len(candidate_rx[w])

RECURSIVE SumConsumed(_)
SumConsumed(W) ==
    IF W = {} THEN 0
    ELSE LET w == CHOOSE x \in W : TRUE
         IN Consumed(w) + SumConsumed(W \ {w})

\* no worker is inside an attempt or inside record_attempt
AllWorkersIdle == \A w \in Workers : wpc[w] \in {"recv", "stopped"}

\* worker w is past the fetch_add of the attempt it is working on
Counted(w) == wpc[w] \in {"record_outcome", "send"}

\* C31: record_attempt is called once for every attempt of a worker, whether
\* it failed to obtain a lease, failed in the kernel, or yielded a result:
\* total_attempts is the number of candidates the workers have taken off
\* their channels, less the attempts still on their way to record_attempt;
\* it equals that number whenever all workers are idle.  It grows by one at
\* a time, in the step in which a worker enters record_attempt, and a worker
\* comes back to waiting only through record_attempt.
C31_OneRecordPerAttempt ==
    /\ [](/\ total_attempts = SumFinished(Workers)
                                 + Cardinality({w \in Workers : Counted(w)})
          /\ AllWorkersIdle => total_attempts = SumConsumed(Workers))
    /\ [][/\ total_attempts' # total_attempts =>
                /\ total_attempts' = total_attempts + 1
                /\ \E w \in Workers : wpc[w] = "record" /\ wpc'[w] = "record_outcome"
          /\ \A w \in Workers :
                (wpc[w] \notin {"recv", "stopped"} /\ wpc'[w] \in {"recv", "stopped"})
                   => wpc[w] \in {"record_outcome", "send"}]_vars

\* all workers are idle after two attempts, one of which failed before the
\* kernel returned anything and one of which yielded a result
C31_Witness ==
    /\ Workers # {}
    /\ AllWorkersIdle
    /\ total_attempts = 2
    /\ SumConsumed(Workers) = 2
    /\ aborted # {}
    /\ successful_blocks = 1

(***************************************************************************)
(* mining.rs with kernels that may panic.  The kernel's code runs inside   *)
(* the worker's task; tokio::spawn confines a panic to that task, which    *)
(* ends and drops what it owns: its receiver with the candidates queued in *)
(* it, and the kernel and scratch directory of the attempt.                *)
(***************************************************************************)
\* kernel.poke(..) panics inside the task of worker w
kernel_poke_panics(w) ==
    /\ wpc[w] = "poke"
    /\ wpc' = [wpc EXCEPT ![w] = "stopped"]
    /\ candidate_rx' = [candidate_rx EXCEPT ![w] = <<>>]
    /\ held' = [held EXCEPT ![w] = {}]
    /\ scratch' = scratch \ held[w]
    /\ UNCHANGED <<fieldv, inputs, dpc, pokes, init_signalled, setup, kernel_pool,
                   pool_lock, constructed, prewarm_i, cur, result, result_chan,
                   dispatchv, kernelv, statsv, simplev>>

CrashNext ==
    \/ NextPool
    \/ \E w \in Workers : kernel_poke_panics(w)

CrashSpec == PoolInit /\ [][CrashNext]_vars

\* the dispatcher takes a `mine` effect in this step
MineEffectTaken == variant = "pool" /\ candidates' # candidates

\* C32: the cursor is always a worker's index.  A `mine` effect moves it to
\* the next worker (mod N) whether or not the send to the worker under the
\* cursor succeeded; when the send fails the candidate reaches no worker's
\* queue and the dispatcher stays in its loop.  No other step moves the
\* cursor: not a poke of a result, not a step of a worker.
C32_SendFailure ==
    /\ [](variant = "pool" => current_worker \in 0..(num_workers - 1))
    /\ [][/\ MineEffectTaken =>
                /\ candidates' = candidates + 1
                /\ dpc = "loop" /\ dpc' = "loop"
                /\ current_worker' = (current_worker + 1) % num_workers
                /\ IF SendFails(current_worker)
                   THEN UNCHANGED <<candidate_rx, dispatched, wpc, pokes, result_chan>>
                   ELSE candidate_rx' =
                           [candidate_rx EXCEPT
                              ![current_worker] = Append(@, candidates')]
          /\ current_worker' # current_worker => MineEffectTaken
          /\ (pokes' # pokes \/ result_chan' # result_chan \/ wpc' # wpc)
                => current_worker' = current_worker]_vars

\* two workers: the first has ended, the third candidate was sent to it and
\* is gone, and the cursor has moved on to the second worker
C32_Witness ==
    /\ dpc = "loop"
    /\ num_workers = 2
    /\ wpc[0] = "stopped"
    /\ candidates = 3
    /\ dispatched = <<<<1, 0>>, <<2, 1>>>>
    /\ candidate_rx[0] = <<>>
    /\ current_worker = 1


(***************************************************************************)
(* The worker whose result cannot be sent.                                 *)
(***************************************************************************)
\* result_tx.send(..) of worker w returns Err in this step: the dispatcher's
\* receiver is gone
ResultSendFails(w) == wpc[w] = "send" /\ ~DriverAlive /\ wpc'[w] # "send"

\* C33: a worker whose send on the result channel fails leaves its loop: it
\* stops, owning no kernel, and nothing is put on the channel.  A stopped
\* worker stays stopped: it takes no candidate off its queue, attempts
\* nothing, records nothing and leases nothing.
C33_StopOnSendFailure ==
    /\ [](\A w \in Workers : wpc[w] \in {"send", "stopped"} => held[w] = {})
    /\ [][\A w \in Workers :
            /\ ResultSendFails(w) =>
                  /\ wpc'[w] = "stopped"
                  /\ held'[w] = {}
                  /\ UNCHANGED <<result_chan, candidate_rx, kernel_pool, statsv, dpc>>
            /\ wpc[w] = "stopped" =>
                  /\ wpc'[w] = "stopped"
                  /\ candidate_rx'[w] = candidate_rx[w]
                  /\ cur'[w] = cur[w]
                  /\ held'[w] = {}
                  /\ worker_stats'[w] = worker_stats[w]]_vars

\* the dispatcher has ended in a failed mined poke; a worker whose attempt
\* yielded a result has stopped, and that result never reached the node
C33_Witness ==
    /\ dpc = "panicked"
    /\ \E w \in Workers :
          /\ wpc[w] = "stopped"
          /\ held[w] = {}
          /\ worker_stats[w].successes >= 1
          /\ <<cur[w], 1>> \in produced
          /\ ~\E i \in 1..Len(pokes) :
                pokes[i].wire = "mined" /\ pokes[i].payload[1] = cur[w]


(***************************************************************************)
(* mining_simple_optimized.rs alone, with a plain key or no configuration. *)
(***************************************************************************)
SimpleInit ==
    /\ variant = "simple"
    /\ mining_config \in {None, Some(<< MiningKeyConfig(1, 1, <<11>>) >>)}
    /\ mine \in BOOLEAN
    /\ init_complete_tx \in {"open", "dropped"}
    /\ num_cores \in 1..MaxCores
    /\ InitState
    /\ FieldIdle

SimpleSpec == SimpleInit /\ [][NextSimple]_vars

\* the task in the JoinSet has not returned yet
AttemptRunning == current_attempt.pc \notin {"none", "finished"}

\* the single-worker driver takes a `mine` effect in this step
SimpleMineEffectTaken == variant = "simple" /\ candidates' # candidates

\* C34: the single-worker driver has one attempt in flight at most and one
\* candidate queued at most, and a candidate is queued only while an attempt
\* is in flight.  A `mine` effect that arrives during an attempt puts its
\* candidate in the queue slot, in place of whatever was there, and leaves
\* the attempt alone; one that arrives when no attempt is in flight starts
\* an attempt.  An attempt is started only when none is running, and a
\* running attempt keeps its candidate until it has returned.
C34_OneInFlightOneQueued ==
    /\ [](variant = "simple" =>
            /\ next_attempt \in {None} \cup {Some(c) : c \in 1..candidates}
            /\ next_attempt # None =>
                  /\ AttemptInFlight
                  /\ next_attempt[1] = candidates
                  /\ current_attempt.cand < next_attempt[1])
    /\ [][/\ SimpleMineEffectTaken =>
                /\ candidates' = candidates + 1
                /\ IF AttemptInFlight
                   THEN /\ next_attempt' = Some(candidates')
                        /\ current_attempt' = current_attempt
                   ELSE /\ current_attempt' = Spawned(candidates')
                        /\ next_attempt' = next_attempt
          /\ AttemptRunning =>
                /\ current_attempt'.cand = current_attempt.cand
                /\ current_attempt'.pc # "none"
          /\ (current_attempt' # current_attempt /\ current_attempt'.pc = "record")
                => ~AttemptRunning]_vars

\* the first candidate is still being attempted; the second was queued and
\* has been replaced by the third
C34_Witness ==
    /\ variant = "simple"
    /\ candidates = 3
    /\ current_attempt.cand = 1
    /\ current_attempt.pc = "poke"
    /\ next_attempt = Some(3)


(***************************************************************************)
(* Round-robin and the queues of busy workers.                             *)
(***************************************************************************)
\* no two candidates in a row went to the same worker
NoTwoInARow ==
    \A i \in 1..(Len(dispatched) - 1) : dispatched[i][2] # dispatched[i + 1][2]

\* C35 as stated: whatever the number of workers, the dispatcher never sends
\* two consecutive candidates to the same worker.
C35_NeverTwoInARow == variant = "pool" => NoTwoInARow

\* C35, amended: with two or more workers the dispatcher never sends two
\* consecutive candidates to the same worker; with a single worker (a
\* machine with one core) every candidate goes to that worker.
C35_NeverTwoInARowAmongSeveral ==
    variant = "pool" =>
       /\ num_workers >= 2 => NoTwoInARow
       /\ num_workers = 1 => \A i \in 1..Len(dispatched) : dispatched[i][2] = 0

\* two workers; the first is still computing on the first candidate and has
\* nothing queued, the second candidate went to the second worker
C35_Witness ==
    /\ num_workers = 2
    /\ dispatched = <<<<1, 0>>, <<2, 1>>>>
    /\ wpc[0] = "poke"
    /\ cur[0] = 1
    /\ candidate_rx[0] = <<>>
    /\ candidate_rx[1] = <<2>>


(***************************************************************************)
(* The counters of MiningStats.                                            *)
(***************************************************************************)
RECURSIVE SumAttempts(_)
SumAttempts(W) ==
    IF W = {} THEN 0
    ELSE LET w == CHOOSE x \in W : TRUE
         IN worker_stats[w].attempts + SumAttempts(W \ {w})

RECURSIVE SumSuccesses(_)
SumSuccesses(W) ==
    IF W = {} THEN 0
    ELSE LET w == CHOOSE x \in W : TRUE
         IN worker_stats[w].successes + SumSuccesses(W \ {w})

\* the workers that are inside record_attempt, past its first fetch_add
Recording == {w \in Workers : wpc[w] = "record_outcome"}

\* C36: total_attempts is never less than successful_blocks plus
\* failed_attempts; the difference is the number of record_attempt calls in
\* progress, so the two are equal when none is.  When none is in progress
\* the attempts of all workers add up to total_attempts and their successes
\* to successful_blocks.
C36_CounterConsistency ==
    variant = "pool" =>
       /\ total_attempts >= successful_blocks + failed_attempts
       /\ total_attempts = successful_blocks + failed_attempts + Cardinality(Recording)
       /\ Recording = {} =>
             /\ total_attempts = successful_blocks + failed_attempts
             /\ SumAttempts(DOMAIN worker_stats) = total_attempts
             /\ SumSuccesses(DOMAIN worker_stats) = successful_blocks

\* two workers are inside record_attempt at once: both attempts are in
\* total_attempts, neither is in the other counters yet
C36_Witness ==
    /\ \E v, w \in Workers : v # w /\ wpc[v] = "record_outcome" /\ wpc[w] = "record_outcome"
    /\ total_attempts = 2
    /\ successful_blocks + failed_attempts = 0


\* C37: in both drivers successful_blocks never exceeds total_attempts: an
\* attempt adds one to the success counter at most, also when the kernel
\* returned several %command effects for it.
C37_SuccessesBounded == successful_blocks <= total_attempts


(***************************************************************************)
(* The setup loop of mining_simple_optimized.rs.                           *)
(***************************************************************************)
\* the enable-mining pokes sent so far, in order
EnablePokes == SelectSeq(pokes, IsEnablePoke)

\* the driver is in its setup loop, or has not entered it yet
InSetup == dpc \in {"start", "setup_key", "setup_enable"}

\* the driver has passed the init-complete step
PastInit == dpc \in {"loop", "returned_ok", "returned_err"}

\* this step sends a poke of the setup loop
SetupPokeSent == Len(pokes') = Len(pokes) + 1 /\ pokes'[Len(pokes')].wire # "mined"

\* C38: in the setup loop of the single-worker driver at most three key-setup
\* pokes and at most three enable-mining pokes are sent; an enable-mining
\* poke comes directly after a key-setup poke that succeeded, in the same
\* attempt; no setup poke follows an attempt in which both succeeded, and
\* the loop ends earlier only so; init-complete is signalled in one step, after
\* the loop and not again, whether or not setup succeeded (on the channel
\* that was supplied; a send to a dropped receiver fails and ends the driver).
C38_SetupLoop ==
    /\ [](variant = "simple" /\ mining_config # None =>
            /\ Len(KeyPokes) <= SETUP_ATTEMPTS
            /\ Len(EnablePokes) <= SETUP_ATTEMPTS
            /\ attempt \in 1..SETUP_ATTEMPTS
            /\ \A i \in 1..Len(pokes) :
                  IsEnablePoke(pokes[i]) =>
                     /\ i > 1
                     /\ IsKeyPoke(pokes[i - 1])
                     /\ pokes[i - 1].ok
                     /\ pokes[i].ok =>
                           \A j \in (i + 1)..Len(pokes) : pokes[j].wire = "mined"
            /\ setup_success <=> \E i \in 1..Len(pokes) : IsEnablePoke(pokes[i]) /\ pokes[i].ok
            /\ ~InSetup /\ ~setup_success => Len(KeyPokes) = SETUP_ATTEMPTS
            /\ init_signalled => PastInit /\ init_complete_tx = "open"
            /\ dpc \in {"loop", "returned_ok"} /\ init_complete_tx = "open"
                  => init_signalled
            /\ dpc = "returned_err" => init_complete_tx = "dropped" /\ ~init_signalled)
    /\ [][variant = "simple" /\ mining_config # None =>
            /\ SetupPokeSent =>
                  /\ InSetup
                  /\ attempt = Len(KeyPokes')
                  /\ ~setup_success
            /\ init_signalled' # init_signalled => dpc = "init" /\ init_signalled'
            /\ dpc = "init" => dpc' \in {"init", "loop", "returned_ok", "returned_err"}
            /\ PastInit => PastInit' /\ init_signalled' = init_signalled]_vars

\* every attempt of the setup loop failed, the third one in enable-mining,
\* and init-complete was signalled all the same
C38_Witness ==
    /\ variant = "simple"
    /\ mining_config # None
    /\ Len(KeyPokes) = SETUP_ATTEMPTS
    /\ Len(EnablePokes) >= 1
    /\ IsEnablePoke(pokes[Len(pokes)])
    /\ ~setup_success
    /\ init_signalled
    /\ PastInit


(***************************************************************************)
(* mining_simple_optimized.rs under the scheduling of the tokio runtime:   *)
(* the spawned attempt runs on, every attempt returns, and the driver's    *)
(* select! takes the join_next() branch once the task has returned.        *)
(***************************************************************************)
FairSimpleSpec ==
    /\ SimpleInit
    /\ [][NextSimple]_vars
    /\ WF_vars(simple_mining_attempt)
    /\ WF_vars(S_JoinNext)

\* join_next() returns the task in this step
Joined == current_attempt.pc = "finished" /\ current_attempt' # current_attempt

\* C39: when the attempt in flight has returned and a candidate is queued,
\* the driver starts that candidate and empties the queue slot; when none is
\* queued it starts nothing, and the next attempt is started by the next
\* `mine` effect, with that effect's candidate.  Candidates are attempted in
\* the order they arrived, none twice.  Every attempt returning, a queued
\* candidate is eventually the one attempted, unless a newer one arrives and
\* takes its place: the newest candidate is eventually attempted.
C39_QueuedCandidateStarted ==
    /\ [](variant = "simple" /\ AttemptInFlight =>
            /\ current_attempt.cand \in 1..candidates
            /\ total_attempts <= current_attempt.cand)
    /\ [][variant = "simple" =>
            /\ Joined =>
                  IF next_attempt # None
                  THEN /\ current_attempt' = Spawned(next_attempt[1])
                       /\ next_attempt' = None
                  ELSE /\ current_attempt' = NoTask
                       /\ next_attempt' = None
            /\ (~AttemptInFlight /\ AttemptInFlight') =>
                  /\ SimpleMineEffectTaken
                  /\ current_attempt' = Spawned(candidates')
            /\ (current_attempt' # current_attempt /\ current_attempt'.pc = "record")
                  => current_attempt'.cand > current_attempt.cand]_vars
    /\ \A c \in 1..MaxSimpleCandidates :
          (variant = "simple" /\ next_attempt = Some(c))
             ~> (current_attempt.cand = c \/ candidates > c)

\* the first attempt has returned; the second candidate was dropped from the
\* queue slot in favour of the third, which is now the second attempt
C39_Witness ==
    /\ variant = "simple"
    /\ candidates = 3
    /\ current_attempt.cand = 3
    /\ current_attempt.pc = "poke"
    /\ total_attempts = 2
    /\ next_attempt = None

=============================================================================
